---- MODULE Spec2Model ----
(***************************************************************************)
(* Agent-task orchestration core of genius-online-navigator:               *)
(*   - WorkflowGraph / GraphWorkflowEngine  (agents/workflows)             *)
(*   - ToolRegistry                         (agents/tools)                 *)
(*   - AgentCore                            (agents/core/base_agent.py)    *)
(*   - ModelRouter                          (llm/model_router.py)          *)
(* Each component has its own specification (SpecWF, SpecTools, SpecAgent, *)
(* SpecRouter) over the variables of that component.                       *)
(***************************************************************************)
EXTENDS Integers, Sequences, FiniteSets, TLC

None == "None"

(***************************************************************************)
(* Bounds of the model.                                                    *)
(***************************************************************************)
MaxEdges == 4
MaxToolCalls == 2
MaxRouterOps == 3
MaxTasks == 2
MaxUpdates == 10
MaxRuns == 3
MaxCalls == 3
NumRouters == 2
NumCoroutines == 2

(***************************************************************************)
(* State of the four components.                                           *)
(***************************************************************************)
\* workflow graph and run state: graph_engine.py, engine.py
VARIABLES
    nodes,              \* WorkflowGraph.nodes: id -> NodeType
    edges,              \* WorkflowGraph.edges: list of WorkflowEdge
    start_node,         \* WorkflowGraph.start_node (None when unset)
    end_nodes,          \* WorkflowGraph.end_nodes
    wf_pc,              \* position of the caller: build / wave / done / invalid
    current_nodes,      \* WorkflowState.current_nodes (the frontier)
    nodes_to_process,   \* snapshot of the frontier still to iterate in this wave
    completed_nodes,    \* WorkflowState.completed_nodes
    results,            \* WorkflowState.results: id -> result
    invoked,            \* number of _process_node calls per node id
    raised              \* node ids whose handler raised during this run

wfVars == <<nodes, edges, start_node, end_nodes, wf_pc, current_nodes,
            nodes_to_process, completed_nodes, results, invoked, raised>>

\* ToolRegistry: agents/tools/__init__.py
VARIABLES
    tools,              \* ToolRegistry.tools: name -> kind of callable
    allowed_tools,      \* ToolRegistry.allowed_tools (config)
    sandbox_mode,       \* ToolRegistry.sandbox_mode (config)
    tool_pc,            \* position of the execute_tool caller: idle / waiting / returned
    call_name,          \* name passed to the execute_tool call in progress
    call_behaviour,     \* what the called tool does: returns / raises / exceeds_timeout
    call_result,        \* value returned by execute_tool
    call_ran,           \* the tool callable was started for this call
    reg_at_call,        \* the registry as it was when the call was made
    reg_refused,        \* names whose registration was refused
    tool_runs           \* number of times a tool callable was started

toolVars == <<tools, allowed_tools, sandbox_mode, tool_pc, call_name, call_behaviour,
              call_result, call_ran, reg_at_call, reg_refused, tool_runs>>

\* ModelRouter: llm/model_router.py
VARIABLES
    models_config,      \* ModelRouter.models_config: the catalog (a list)
    model_metrics,      \* ModelRouter.model_metrics: key -> metrics dict
    task_history,       \* ModelRouter.task_history: task_type -> key -> {total, successes}
    model_usage,        \* ModelRouter.model_usage: key -> count
    sel_result,         \* outcome of the last select_model call
    sel_pre,            \* model_metrics and task_history read by that call
    router_ops,         \* number of router calls made
    ones_fed            \* key -> number of consecutive update_model_metrics calls
                        \* carrying success_rate 1.0 since the key had no stored
                        \* success_rate; -1 after any other history

routerVars == <<models_config, model_metrics, task_history, model_usage,
                sel_result, sel_pre, router_ops, ones_fed>>

\* AgentCore: agents/core/base_agent.py
VARIABLES
    agent_pc,           \* position of execute(): idle, context_retrieval, ..., done
    agent_task,         \* the Task being executed
    tracer,             \* the tracer in use: "quiet" or "local"
    current_model_path, \* AgentCore.current_model_path
    fallback_models,    \* AgentCore.fallback_models
    selected_llm,       \* model path of the LLM used for the task's model calls
    react,              \* locals of _execute_react: step, thoughts, actions, pass,
                        \* and the calls made in this pass
    agent_result,       \* the AgentResult execute() returns
    exec_outcome,       \* how execute() ended: returned / escaped
    failed_at,          \* the statement whose exception reached the except
                        \* clause of execute()
    tasks_started,      \* number of execute() calls made
    plan_error,         \* the plan_error local: what raised in the inner try
    fallbacks_tried,    \* number of fallback generate_plan calls of this task
    metric_updates      \* the keys of the update_model_metrics calls made by
                        \* this execute(), in order

agentVars == <<agent_pc, agent_task, tracer, current_model_path, fallback_models,
               selected_llm, react, agent_result, exec_outcome, failed_at, tasks_started,
               plan_error, fallbacks_tried, metric_updates>>

\* ToolSandbox.run_code: agents/security/sandbox.py
VARIABLES
    sb_pc,              \* position of run_code(): idle, create_file, ..., returned
    os_name,            \* os.name of the host
    temp_file,          \* the temp_file local; Unbound before its assignment
    temp_files,         \* the temporary source files that exist on disk
    file_created,       \* the file NamedTemporaryFile created in this call
    process,            \* the subprocess: none / running / exited / killed
    run_result,         \* what run_code() returns
    runs_started        \* number of run_code() calls made

sandboxVars == <<sb_pc, os_name, temp_file, temp_files, file_created, process,
                 run_result, runs_started>>

\* the model routers of one deployment and the files they share
VARIABLES
    routers,            \* instance -> [metrics, history]: the ModelRouter objects
    disk,               \* model_metrics.json and task_history.json
    applied,            \* the update_model_metrics calls made, in order
    last_writer         \* the instance that made the last call

storeVars == <<routers, disk, applied, last_writer>>

\* execute() calls in progress at the same time on one AgentCore
VARIABLES
    co_pc,              \* call -> the await at which that execute() is suspended
    co_llm,             \* call -> model path of its selected_llm local
    co_recorded,        \* call -> key of its update_model_metrics call
    co_result_path,     \* call -> metrics["model_path"] of the AgentResult it returned
    core_model_path     \* AgentCore.current_model_path, shared by the calls

coVars == <<co_pc, co_llm, co_recorded, co_result_path, core_model_path>>

(***************************************************************************)
(* Workflow graph: graph_engine.py                                         *)
(***************************************************************************)
\* NodeType (the remaining variants CONDITIONAL/MAP/REDUCE/MERGE behave like
\* AGENT for the engine loop: the handler returns a dict or raises)
NodeType == {"start", "end", "agent", "tool"}

\* EdgeCondition
EdgeCondition == {"always", "success", "failure", "custom"}

\* node ids and the (id, type) pairs offered to add_node
NodeIds == {"start", "A", "B", "end"}

NodeInputs ==
    { [id |-> "start", type |-> "start"],
      [id |-> "A",     type |-> "agent"],
      [id |-> "B",     type |-> "tool"],
      [id |-> "B",     type |-> "start"],
      [id |-> "end",   type |-> "end"],
      [id |-> "end",   type |-> "agent"] }

\* a WorkflowEdge; condition_func is None or a predicate, named by what it
\* answers
Edge(source_node, target_node, condition, condition_func) ==
    [source_node |-> source_node, target_node |-> target_node,
     condition |-> condition, condition_func |-> condition_func]

\* the edges offered to add_edge
EdgeInputs ==
    { Edge("start", "A", "always", None),
      Edge("start", "B", "always", None),
      Edge("A", "B", "always", None),
      Edge("B", "A", "always", None),
      Edge("B", "end", "always", None),
      Edge("A", "end", "failure", None),
      Edge("A", "end", "custom", "accepts") }

EmptyFn == [x \in {} |-> None]

\* WorkflowGraph.add_node: the node is stored before the START check, so a
\* second START node raises ValueError after it has replaced/entered the map
add_node(node) ==
    /\ wf_pc = "build"
    /\ nodes' = [i \in DOMAIN nodes \cup {node.id} |->
                    IF i = node.id THEN node.type ELSE nodes[i]]
    /\ IF node.type = "start"
          THEN IF start_node # None
                  THEN UNCHANGED <<start_node, end_nodes>>      \* raise ValueError
                  ELSE start_node' = node.id /\ UNCHANGED end_nodes
          ELSE /\ UNCHANGED start_node
               /\ end_nodes' = IF node.type = "end"
                                  THEN end_nodes \cup {node.id} ELSE end_nodes
    /\ UNCHANGED <<edges, wf_pc, current_nodes, nodes_to_process,
                   completed_nodes, results, invoked, raised>>
    /\ UNCHANGED <<toolVars, routerVars, agentVars, sandboxVars, storeVars, coVars>>

\* WorkflowGraph.add_edge: rejects an edge naming an unknown node
add_edge(edge) ==
    /\ wf_pc = "build"
    /\ Len(edges) < MaxEdges
    /\ edge.source_node \in DOMAIN nodes
    /\ edge.target_node \in DOMAIN nodes
    /\ edges' = Append(edges, edge)
    /\ UNCHANGED <<nodes, start_node, end_nodes, wf_pc, current_nodes,
                   nodes_to_process, completed_nodes, results, invoked, raised>>
    /\ UNCHANGED <<toolVars, routerVars, agentVars, sandboxVars, storeVars, coVars>>

(***************************************************************************)
(* WorkflowGraph.validate                                                  *)
(***************************************************************************)
\* the BFS of validate(): pop a node, mark it reachable, queue the targets of
\* its edges that are not yet reachable
RECURSIVE ReachableNodes(_, _)
ReachableNodes(nodes_to_check, reachable_nodes) ==
    IF nodes_to_check = {} THEN reachable_nodes
    ELSE LET current_node == CHOOSE n \in nodes_to_check : TRUE
             reach2 == reachable_nodes \cup {current_node}
             targets == { edges[i].target_node : i \in
                            { j \in 1..Len(edges) :
                                /\ edges[j].source_node = current_node
                                /\ edges[j].target_node \notin reach2 } }
         IN  ReachableNodes((nodes_to_check \ {current_node}) \cup targets, reach2)

\* WorkflowGraph._has_cycle: recursive DFS over the edge list; visited is
\* shared by the whole search, stack holds the nodes of the current path
RECURSIVE HasCycleEdges(_, _, _, _)
RECURSIVE _has_cycle(_, _, _)
HasCycleEdges(node_id, i, visited, stack) ==
    IF i > Len(edges) THEN [cyc |-> FALSE, visited |-> visited]
    ELSE IF edges[i].source_node # node_id
         THEN HasCycleEdges(node_id, i + 1, visited, stack)
    ELSE IF edges[i].target_node \notin visited
         THEN LET r == _has_cycle(edges[i].target_node, visited, stack)
              IN  IF r.cyc THEN r
                  ELSE HasCycleEdges(node_id, i + 1, r.visited, stack)
    ELSE IF edges[i].target_node \in stack
         THEN [cyc |-> TRUE, visited |-> visited]
    ELSE HasCycleEdges(node_id, i + 1, visited, stack)

_has_cycle(node_id, visited, stack) ==
    HasCycleEdges(node_id, 1, visited \cup {node_id}, stack \cup {node_id})

\* validate(): the set of error kinds it reports
validate ==
    (IF start_node = None THEN {"no_start"} ELSE {})
    \cup (IF end_nodes = {} THEN {"no_end"} ELSE {})
    \cup (IF DOMAIN nodes \ ReachableNodes({start_node}, {}) # {}
             THEN {"unreachable"} ELSE {})
    \cup (IF \E n \in DOMAIN nodes : _has_cycle(n, {}, {}).cyc
             THEN {"cycle"} ELSE {})

(***************************************************************************)
(* WorkflowGraph.to_dict / from_dict                                       *)
(***************************************************************************)
\* to_dict: the node map, the edges without their predicate (only whether
\* there was one), start_node and end_nodes
to_dict ==
    [ nodes |-> nodes,
      edges |-> [ i \in 1..Len(edges) |->
                    [source |-> edges[i].source_node, target |-> edges[i].target_node,
                     condition |-> edges[i].condition,
                     has_condition_func |-> edges[i].condition_func # None] ],
      start_node |-> start_node,
      end_nodes |-> end_nodes ]

\* the add_node loop of from_dict over the ids still to add: the graph under
\* construction, and whether add_node raised.  The outcome does not depend on
\* the order in which the dict is walked: the second node of type START
\* raises whichever it is.
RECURSIVE FromDictNodes(_, _, _)
FromDictNodes(data, todo, graph) ==
    IF todo = {} \/ graph.raised THEN graph
    ELSE LET id == CHOOSE n \in todo : TRUE
             type == data.nodes[id]
             stored == [n \in DOMAIN graph.nodes \cup {id} |->
                          IF n = id THEN type ELSE graph.nodes[n]]
         IN  FromDictNodes(data, todo \ {id},
                [ nodes |-> stored,
                  raised |-> (type = "start" /\ graph.start_node # None),
                  start_node |-> IF type = "start" /\ graph.start_node = None
                                    THEN id ELSE graph.start_node,
                  end_nodes |-> IF type = "end" THEN graph.end_nodes \cup {id}
                                   ELSE graph.end_nodes ])

\* from_dict: add the nodes, add the edges with condition_func = None, then
\* take start_node and end_nodes from the dict
from_dict(data) ==
    LET built == FromDictNodes(data, DOMAIN data.nodes,
                    [nodes |-> EmptyFn, raised |-> FALSE,
                     start_node |-> None, end_nodes |-> {}])
    IN  IF built.raised
           THEN [raised |-> TRUE, nodes |-> EmptyFn, edges |-> <<>>,
                 start_node |-> None, end_nodes |-> {}]
           ELSE [raised |-> FALSE,
                 nodes |-> built.nodes,
                 edges |-> [ i \in 1..Len(data.edges) |->
                              Edge(data.edges[i].source, data.edges[i].target,
                                   data.edges[i].condition, None) ],
                 start_node |-> data.start_node,
                 end_nodes |-> data.end_nodes]

(***************************************************************************)
(* GraphWorkflowEngine: engine.py                                          *)
(***************************************************************************)
\* what _process_node can do for a node of each type: return a value or raise.
\* START/END return a dict; AGENT wraps the AgentResult in a dict
\* {"output": result} or raises (agent missing from the registry); TOOL
\* returns whatever tool.run returns (an object that may carry a success
\* attribute, or a dict) or raises.
HandlerOutcomes(type) ==
    CASE type = "start" -> { [kind |-> "started", success |-> None] }
      [] type = "end"   -> { [kind |-> "completed", success |-> None] }
      [] type = "agent" -> { [kind |-> "agent_output", success |-> "True"],
                             [kind |-> "agent_output", success |-> "False"],
                             [kind |-> "raise", success |-> None] }
      [] type = "tool"  -> { [kind |-> "tool_object", success |-> "True"],
                             [kind |-> "tool_object", success |-> "False"],
                             [kind |-> "tool_dict", success |-> None],
                             [kind |-> "raise", success |-> None] }

\* getattr(result, "success", default): only an object returned by a tool has
\* the attribute; the dicts built by _process_node do not
getattr_success(result, default) ==
    IF result.kind = "tool_object" THEN result.success = "True" ELSE default

\* WorkflowGraph.get_next_nodes
condition_met(edge, result) ==
    CASE edge.condition = "always"  -> TRUE
      [] edge.condition = "success" -> getattr_success(result, FALSE)
      [] edge.condition = "failure" -> ~ getattr_success(result, TRUE)
      [] edge.condition = "custom"  -> edge.condition_func = "accepts"

get_next_nodes(node_id, result) ==
    { edges[i].target_node : i \in { j \in 1..Len(edges) :
          /\ edges[j].source_node = node_id
          /\ condition_met(edges[j], result) } }

\* the FAILURE targets looked up in the except branch of execute_workflow
error_next_nodes(node_id) ==
    { edges[i].target_node : i \in { j \in 1..Len(edges) :
          /\ edges[j].source_node = node_id
          /\ edges[j].condition = "failure" } }

\* execute_workflow, lines 38-51: validate, refuse an invalid graph, else
\* create the WorkflowState with the start node as frontier
execute_workflow ==
    /\ wf_pc = "build"
    /\ IF validate # {}
          THEN /\ wf_pc' = "invalid"                 \* raise ValueError
               /\ UNCHANGED <<current_nodes, completed_nodes, results>>
          ELSE /\ wf_pc' = "wave"
               /\ current_nodes' = {start_node}
               /\ completed_nodes' = {}
               /\ results' = EmptyFn
    /\ UNCHANGED <<nodes, edges, start_node, end_nodes, nodes_to_process,
                   invoked, raised>>
    /\ UNCHANGED <<toolVars, routerVars, agentVars, sandboxVars, storeVars, coVars>>

\* the wave boundary without the clearing of the frontier (line 58)
WaveBoundary_KeepFrontier ==
    /\ wf_pc = "wave"
    /\ nodes_to_process = {}
    /\ IF current_nodes # {} /\ ~ (current_nodes \subseteq end_nodes)
          THEN /\ nodes_to_process' = current_nodes
               /\ UNCHANGED <<wf_pc, current_nodes>>
          ELSE /\ wf_pc' = "done"
               /\ UNCHANGED <<nodes_to_process, current_nodes>>
    /\ UNCHANGED <<nodes, edges, start_node, end_nodes, completed_nodes,
                   results, invoked, raised>>
    /\ UNCHANGED <<toolVars, routerVars, agentVars, sandboxVars, storeVars, coVars>>

\* the while condition of line 55, evaluated when the for loop of the previous
\* wave is exhausted: snapshot and clear the frontier, or build the final result
WaveBoundary ==
    /\ wf_pc = "wave"
    /\ nodes_to_process = {}
    /\ IF current_nodes # {} /\ ~ (current_nodes \subseteq end_nodes)
          THEN /\ nodes_to_process' = current_nodes
               /\ current_nodes' = {}
               /\ UNCHANGED wf_pc
          ELSE /\ wf_pc' = "done"
               /\ UNCHANGED <<nodes_to_process, current_nodes>>
    /\ UNCHANGED <<nodes, edges, start_node, end_nodes, completed_nodes,
                   results, invoked, raised>>
    /\ UNCHANGED <<toolVars, routerVars, agentVars, sandboxVars, storeVars, coVars>>

\* the for loop iteration with an except branch that also follows the
\* unconditional edges of the failed node
ProcessNode_FailureKeepsAlways(node_id, outcome) ==
    /\ wf_pc = "wave"
    /\ node_id \in nodes_to_process
    /\ nodes_to_process' = nodes_to_process \ {node_id}
    /\ IF node_id \in completed_nodes
          THEN UNCHANGED <<current_nodes, completed_nodes, results, invoked, raised>>
          ELSE /\ outcome \in HandlerOutcomes(nodes[node_id])
               /\ invoked' = [invoked EXCEPT ![node_id] = @ + 1]
               /\ IF outcome.kind # "raise"
                     THEN /\ results' = [i \in DOMAIN results \cup {node_id} |->
                                           IF i = node_id THEN outcome ELSE results[i]]
                          /\ completed_nodes' = completed_nodes \cup {node_id}
                          /\ current_nodes' = current_nodes \cup get_next_nodes(node_id, outcome)
                          /\ UNCHANGED raised
                     ELSE /\ raised' = raised \cup {node_id}
                          /\ IF error_next_nodes(node_id) # {}
                                THEN /\ current_nodes' = current_nodes \cup error_next_nodes(node_id)
                                                         \cup get_next_nodes(node_id, outcome)
                                     /\ UNCHANGED <<completed_nodes, results>>
                                ELSE /\ completed_nodes' = completed_nodes \cup {node_id}
                                     /\ results' = [i \in DOMAIN results \cup {node_id} |->
                                                      IF i = node_id
                                                         THEN [kind |-> "error", success |-> None]
                                                         ELSE results[i]]
                                     /\ UNCHANGED current_nodes
    /\ UNCHANGED <<nodes, edges, start_node, end_nodes, wf_pc>>
    /\ UNCHANGED <<toolVars, routerVars, agentVars, sandboxVars, storeVars, coVars>>

\* one iteration of the for loop of lines 61-92
ProcessNode(node_id, outcome) ==
    /\ wf_pc = "wave"
    /\ node_id \in nodes_to_process
    /\ nodes_to_process' = nodes_to_process \ {node_id}
    /\ IF node_id \in completed_nodes
          THEN UNCHANGED <<current_nodes, completed_nodes, results, invoked, raised>>
          ELSE /\ outcome \in HandlerOutcomes(nodes[node_id])
               /\ invoked' = [invoked EXCEPT ![node_id] = @ + 1]
               /\ IF outcome.kind # "raise"
                     THEN /\ results' = [i \in DOMAIN results \cup {node_id} |->
                                           IF i = node_id THEN outcome ELSE results[i]]
                          /\ completed_nodes' = completed_nodes \cup {node_id}
                          /\ current_nodes' = current_nodes \cup get_next_nodes(node_id, outcome)
                          /\ UNCHANGED raised
                     ELSE /\ raised' = raised \cup {node_id}
                          /\ IF error_next_nodes(node_id) # {}
                                THEN /\ current_nodes' = current_nodes \cup error_next_nodes(node_id)
                                     /\ UNCHANGED <<completed_nodes, results>>
                                ELSE /\ completed_nodes' = completed_nodes \cup {node_id}
                                     /\ results' = [i \in DOMAIN results \cup {node_id} |->
                                                      IF i = node_id
                                                         THEN [kind |-> "error", success |-> None]
                                                         ELSE results[i]]
                                     /\ UNCHANGED current_nodes
    /\ UNCHANGED <<nodes, edges, start_node, end_nodes, wf_pc>>
    /\ UNCHANGED <<toolVars, routerVars, agentVars, sandboxVars, storeVars, coVars>>

\* the final result built after the loop, lines 95-101
final_result ==
    [completed |-> TRUE,
     results |-> results,
     end_nodes |-> [n \in end_nodes \cap DOMAIN results |-> results[n]]]

AllOutcomes == UNION { HandlerOutcomes(t) : t \in NodeType }

WFInit ==
    /\ nodes = EmptyFn
    /\ edges = <<>>
    /\ start_node = None
    /\ end_nodes = {}
    /\ wf_pc = "build"
    /\ current_nodes = {}
    /\ nodes_to_process = {}
    /\ completed_nodes = {}
    /\ results = EmptyFn
    /\ invoked = [n \in NodeIds |-> 0]
    /\ raised = {}

\* the graphs a builder leaves when it adds each id once and then any of the
\* offered edges whose end points exist
RECURSIVE SeqOf(_)
SeqOf(S) ==
    IF S = {} THEN <<>>
    ELSE LET e == CHOOSE x \in S : TRUE IN <<e>> \o SeqOf(S \ {e})

WFBuilt ==
    /\ \E N \in SUBSET NodeIds, E \in SUBSET EdgeInputs :
          /\ \A e \in E : e.source_node \in N /\ e.target_node \in N
          /\ nodes = [n \in N |-> CASE n = "start" -> "start" [] n = "A" -> "agent"
                                      [] n = "B" -> "tool" [] n = "end" -> "end"]
          /\ edges = SeqOf(E)
          /\ start_node = IF "start" \in N THEN "start" ELSE None
          /\ end_nodes = N \cap {"end"}
    /\ wf_pc = "build"
    /\ current_nodes = {}
    /\ nodes_to_process = {}
    /\ completed_nodes = {}
    /\ results = EmptyFn
    /\ invoked = [n \in NodeIds |-> 0]
    /\ raised = {}

\* execute_workflow alone, on a graph that is already built
WFRun ==
    \/ execute_workflow
    \/ WaveBoundary
    \/ \E node_id \in NodeIds, outcome \in AllOutcomes : ProcessNode(node_id, outcome)

WFNext ==
    \/ \E node \in NodeInputs : add_node(node)
    \/ \E edge \in EdgeInputs : add_edge(edge)
    \/ execute_workflow
    \/ WaveBoundary
    \/ \E node_id \in NodeIds, outcome \in AllOutcomes : ProcessNode(node_id, outcome)

(***************************************************************************)
(* ToolRegistry: agents/tools/__init__.py                                  *)
(***************************************************************************)
ToolNames == {"search", "calculator", "shell"}

\* asyncio.iscoroutinefunction(tool): "async" for an async def, "sync" otherwise
ToolKinds == {"async", "sync"}

ToolBehaviours == {"returns", "raises", "exceeds_timeout"}

\* register_tool with a warning-only gate: the name is logged and stored anyway
register_tool_WarnOnly(name, tool) ==
    /\ tool_pc \in {"idle", "waiting"}
    /\ tools' = [n \in DOMAIN tools \cup {name} |->
                    IF n = name THEN tool ELSE tools[n]]
    /\ reg_refused' = IF allowed_tools # {} /\ name \notin allowed_tools /\ sandbox_mode
                          THEN reg_refused \cup {name} ELSE reg_refused
    /\ UNCHANGED <<allowed_tools, sandbox_mode, tool_pc, call_name, call_behaviour,
                   call_result, call_ran, reg_at_call, tool_runs>>
    /\ UNCHANGED <<wfVars, routerVars, agentVars, sandboxVars, storeVars, coVars>>

\* ToolRegistry.register_tool
register_tool(name, tool) ==
    /\ tool_pc \in {"idle", "waiting"}
    /\ IF allowed_tools # {} /\ name \notin allowed_tools /\ sandbox_mode
          THEN /\ reg_refused' = reg_refused \cup {name}          \* blocked, return
               /\ UNCHANGED tools
          ELSE /\ tools' = [n \in DOMAIN tools \cup {name} |->
                              IF n = name THEN tool ELSE tools[n]]
               /\ UNCHANGED reg_refused
    /\ UNCHANGED <<allowed_tools, sandbox_mode, tool_pc, call_name, call_behaviour,
                   call_result, call_ran, reg_at_call, tool_runs>>
    /\ UNCHANGED <<wfVars, routerVars, agentVars, sandboxVars, storeVars, coVars>>

\* ToolRegistry.unregister_tool
unregister_tool(name) ==
    /\ tool_pc \in {"idle", "waiting"}
    /\ name \in DOMAIN tools
    /\ tools' = [n \in DOMAIN tools \ {name} |-> tools[n]]
    /\ UNCHANGED <<allowed_tools, sandbox_mode, tool_pc, call_name, call_behaviour,
                   call_result, call_ran, reg_at_call, reg_refused, tool_runs>>
    /\ UNCHANGED <<wfVars, routerVars, agentVars, sandboxVars, storeVars, coVars>>

\* is_tool_allowed without the allow-list test
is_tool_allowed_RegisteredOnly(name) ==
    name \in DOMAIN tools

\* ToolRegistry.is_tool_allowed: an empty allow-list allows every registered tool
is_tool_allowed(name) ==
    IF allowed_tools = {}
       THEN name \in DOMAIN tools
       ELSE name \in allowed_tools /\ name \in DOMAIN tools

\* ToolRegistry.execute_tool up to its first suspension point.  For a
\* coroutine function the task is created and awaited with wait_for.  For a
\* plain callable run_in_executor hands the call to the thread pool and
\* returns a Future; asyncio.create_task(Future) raises TypeError, which the
\* except Exception branch turns into an error value at once.
execute_tool(name, behaviour) ==
    /\ tool_pc = "idle"
    /\ call_name' = name
    /\ call_behaviour' = behaviour
    /\ reg_at_call' = tools
    /\ IF name \notin DOMAIN tools
          THEN /\ call_result' = "not_found"
               /\ tool_pc' = "returned"
               /\ call_ran' = FALSE
               /\ UNCHANGED tool_runs
       ELSE IF ~ is_tool_allowed(name)
          THEN /\ call_result' = "not_allowed"
               /\ tool_pc' = "returned"
               /\ call_ran' = FALSE
               /\ UNCHANGED tool_runs
       ELSE IF tools[name] = "async"
          THEN /\ call_result' = None
               /\ tool_pc' = "waiting"
               /\ call_ran' = TRUE
               /\ tool_runs' = tool_runs + 1
          ELSE /\ call_result' = "exec_error"
               /\ tool_pc' = "returned"
               /\ call_ran' = TRUE
               /\ tool_runs' = tool_runs + 1
    /\ UNCHANGED <<tools, allowed_tools, sandbox_mode, reg_refused>>
    /\ UNCHANGED <<wfVars, routerVars, agentVars, sandboxVars, storeVars, coVars>>

\* await asyncio.wait_for(task, timeout): the task returns in time
ToolReturns ==
    /\ tool_pc = "waiting"
    /\ call_behaviour = "returns"
    /\ call_result' = "result"
    /\ tool_pc' = "returned"
    /\ UNCHANGED <<tools, allowed_tools, sandbox_mode, call_name, call_behaviour,
                   call_ran, reg_at_call, reg_refused, tool_runs>>
    /\ UNCHANGED <<wfVars, routerVars, agentVars, sandboxVars, storeVars, coVars>>

\* the task raises: except Exception
ToolRaises ==
    /\ tool_pc = "waiting"
    /\ call_behaviour = "raises"
    /\ call_result' = "exec_error"
    /\ tool_pc' = "returned"
    /\ UNCHANGED <<tools, allowed_tools, sandbox_mode, call_name, call_behaviour,
                   call_ran, reg_at_call, reg_refused, tool_runs>>
    /\ UNCHANGED <<wfVars, routerVars, agentVars, sandboxVars, storeVars, coVars>>

\* the timeout expires first: except asyncio.TimeoutError
ToolTimeout ==
    /\ tool_pc = "waiting"
    /\ call_behaviour = "exceeds_timeout"
    /\ call_result' = "timeout"
    /\ tool_pc' = "returned"
    /\ UNCHANGED <<tools, allowed_tools, sandbox_mode, call_name, call_behaviour,
                   call_ran, reg_at_call, reg_refused, tool_runs>>
    /\ UNCHANGED <<wfVars, routerVars, agentVars, sandboxVars, storeVars, coVars>>

\* the caller takes the returned value; the registry is ready for the next call
ToolCallDone ==
    /\ tool_pc = "returned"
    /\ tool_runs < MaxToolCalls
    /\ tool_pc' = "idle"
    /\ UNCHANGED <<tools, allowed_tools, sandbox_mode, call_name, call_behaviour,
                   call_result, call_ran, reg_at_call, reg_refused, tool_runs>>
    /\ UNCHANGED <<wfVars, routerVars, agentVars, sandboxVars, storeVars, coVars>>

ToolsInit ==
    /\ tools = EmptyFn
    /\ allowed_tools \in SUBSET ToolNames
    /\ sandbox_mode \in BOOLEAN
    /\ tool_pc = "idle"
    /\ call_name = None
    /\ call_behaviour = None
    /\ call_result = None
    /\ call_ran = FALSE
    /\ reg_at_call = EmptyFn
    /\ reg_refused = {}
    /\ tool_runs = 0

ToolsStep ==
    \/ \E name \in ToolNames, tool \in ToolKinds : register_tool(name, tool)
    \/ \E name \in ToolNames : unregister_tool(name)
    \/ \E name \in ToolNames, behaviour \in ToolBehaviours : execute_tool(name, behaviour)
    \/ ToolReturns
    \/ ToolRaises
    \/ ToolTimeout
    \/ ToolCallDone

(***************************************************************************)
(* The TOOL node of the workflow engine: workflows/engine.py,              *)
(* routes/workflows/api.py.  The engine is handed the registry's tools     *)
(* dictionary, so a TOOL node sees what register_tool stored.              *)
(***************************************************************************)
\* what a registered value is to the TOOL node: "async" and "sync" are the
\* functions execute_tool expects, "runnable" is an object with an async
\* run method
NodeToolKinds == ToolKinds \cup {"runnable"}

\* _process_node for a TOOL node followed by the try/except of
\* execute_workflow.  failure_edges tells whether the node has FAILURE edges.
\* call_result is what ends up in state.results for the node: "result" is
\* the value tool.run returned, "error" the {"error": ...} dictionary, None
\* nothing at all.
ProcessToolNode(tool_name, behaviour, failure_edges) ==
    /\ tool_pc = "idle"
    /\ call_name' = tool_name
    /\ call_behaviour' = behaviour
    /\ tool_pc' = "returned"
    /\ LET found == tool_name \in DOMAIN tools
           \* tool.run exists and is awaited with no wait_for around it: a slow
           \* tool is simply waited for
           runs == found /\ tools[tool_name] = "runnable"
           handler_raises == ~ runs \/ behaviour = "raises"
       IN  /\ call_ran' = runs
           /\ tool_runs' = IF runs THEN tool_runs + 1 ELSE tool_runs
           /\ call_result' = IF ~ handler_raises THEN "result"
                              ELSE IF failure_edges THEN None
                              ELSE "error"
    /\ UNCHANGED <<tools, allowed_tools, sandbox_mode, reg_at_call, reg_refused>>
    /\ UNCHANGED <<wfVars, routerVars, agentVars, sandboxVars, storeVars, coVars>>

\* the for loop of execute_workflow goes on to its next node
ToolNodeDone ==
    /\ tool_pc = "returned"
    /\ tool_runs < MaxToolCalls
    /\ tool_pc' = "idle"
    /\ call_name' = None
    /\ call_behaviour' = None
    /\ call_result' = None
    /\ call_ran' = FALSE
    /\ UNCHANGED <<tools, allowed_tools, sandbox_mode, reg_at_call, reg_refused, tool_runs>>
    /\ UNCHANGED <<wfVars, routerVars, agentVars, sandboxVars, storeVars, coVars>>

ToolNodeStep ==
    \/ \E name \in ToolNames, tool \in NodeToolKinds : register_tool(name, tool)
    \/ \E name \in ToolNames : unregister_tool(name)
    \/ \E tool_name \in ToolNames, behaviour \in ToolBehaviours, failure_edges \in BOOLEAN :
          ProcessToolNode(tool_name, behaviour, failure_edges)
    \/ ToolNodeDone

(***************************************************************************)
(* ModelRouter: llm/model_router.py, llm/__init__.py                       *)
(*                                                                         *)
(* Scores and rates are fixed-point numbers: a rate r in [0,1] is the      *)
(* integer r * 10^6, a score s is s * 10^6, a latency of l ms is l * 10^3. *)
(* resource_efficiency is kept in hundredths, as the catalog writes it.    *)
(***************************************************************************)
Points(n) == n * 1000000

\* the values of LLMBackendType
LLMBackendType == {"vLLM", "llama.cpp", "MLC-LLM", "TensorRT-LLM"}

\* get_default_models_config
get_default_models_config ==
    << [name |-> "Mixtral-8x7B", backend |-> "vLLM",
        model_path |-> "mistralai/Mixtral-8x7B-Instruct-v0.1",
        capabilities |-> {"handles_complex_tasks", "handles_medium_tasks",
                          "multi_agent_coordination", "human_interaction",
                          "logical_reasoning", "creative_reasoning",
                          "handles_long_generation"},
        resource_efficiency |-> 60, quantization |-> None, tensor_parallel_size |-> 2],
       [name |-> "Llama-2-13B", backend |-> "vLLM",
        model_path |-> "meta-llama/Llama-2-13b-chat-hf",
        capabilities |-> {"handles_medium_tasks", "multi_agent_coordination",
                          "human_interaction", "logical_reasoning",
                          "causal_reasoning", "efficient_short_responses"},
        resource_efficiency |-> 70, quantization |-> None, tensor_parallel_size |-> 1],
       [name |-> "Llama-2-7B-GGUF", backend |-> "LLAMA_CPP",
        model_path |-> "models/llama-2-7b.Q4_K_M.gguf",
        capabilities |-> {"human_interaction", "efficient_short_responses"},
        resource_efficiency |-> 90, quantization |-> "GGUF", tensor_parallel_size |-> 1],
       [name |-> "Phi-2-GGUF", backend |-> "LLAMA_CPP",
        model_path |-> "models/phi-2.Q4_K_M.gguf",
        capabilities |-> {"logical_reasoning", "procedural_reasoning",
                          "efficient_short_responses"},
        resource_efficiency |-> 95, quantization |-> "GGUF", tensor_parallel_size |-> 1] >>

\* two catalog entries that differ in their name only
EntryX == [name |-> "X", backend |-> "vLLM", model_path |-> "models/xy",
           capabilities |-> {"handles_medium_tasks", "logical_reasoning"},
           resource_efficiency |-> 70, quantization |-> None, tensor_parallel_size |-> 1]
EntryY == [EntryX EXCEPT !.name = "Y"]

\* a single entry that cannot handle complex tasks
EntryLone == [name |-> "Lone", backend |-> "llama.cpp", model_path |-> "models/lone",
              capabilities |-> {"efficient_short_responses"},
              resource_efficiency |-> 95, quantization |-> None, tensor_parallel_size |-> 1]

\* the catalogs a router is constructed with
Catalogs == { get_default_models_config, <<EntryX, EntryY>>, <<EntryY, EntryX>>,
              <<EntryLone>> }

\* the keys under which metrics are kept: catalog names and model paths
CatalogKeys(catalog) ==
    { catalog[i].name : i \in 1..Len(catalog) } \cup
    { catalog[i].model_path : i \in 1..Len(catalog) }

ModelKeys == UNION { CatalogKeys(catalog) : catalog \in Catalogs }

\* a Task as select_model reads it: the trigger words found in the lower-cased
\* query, its length in characters and words, the allowed tool names, the
\* agent type; context_size is len(json.dumps(context))
Tasks ==
    { [query |-> {"summarize"}, query_length |-> 22, word_count |-> 3,
       tools_allowed |-> {}, agent_type |-> "react", context_size |-> 0],
      [query |-> {"urgent", "explain"}, query_length |-> 120, word_count |-> 20,
       tools_allowed |-> {"calculator"}, agent_type |-> "react", context_size |-> 0],
      [query |-> {"analyze", "detailed"}, query_length |-> 600, word_count |-> 90,
       tools_allowed |-> {"search", "sql", "calculator"}, agent_type |-> "multi_agent",
       context_size |-> 4000],
      [query |-> {}, query_length |-> 250, word_count |-> 40,
       tools_allowed |-> {}, agent_type |-> "human_in_loop", context_size |-> 0] }

\* ModelRouter._classify_task_type
_classify_task_type(query, tools_allowed) ==
    IF "summarize" \in query \/ "summary" \in query THEN "summarization"
    ELSE IF "translate" \in query THEN "translation"
    ELSE IF "code" \in query \/ "function" \in query \/ "programming" \in query THEN "coding"
    ELSE IF "search" \in query \/ "find information" \in query THEN "information_retrieval"
    ELSE IF "creative" \in query \/ "write a story" \in query \/ "poem" \in query
         THEN "creative_writing"
    ELSE IF "analyze" \in query \/ "data" \in query THEN "data_analysis"
    ELSE IF "search" \in tools_allowed THEN "information_retrieval"
    ELSE IF "calculator" \in tools_allowed THEN "calculation"
    ELSE IF "sql" \in tools_allowed THEN "database_query"
    ELSE "general"

\* ModelRouter._detect_reasoning_types
_detect_reasoning_types(query) ==
    LET found ==
          (IF "why" \in query \/ "explain" \in query \/ "reason" \in query
              THEN {"causal"} ELSE {})
          \cup (IF "compare" \in query \/ "difference between" \in query
              THEN {"comparative"} ELSE {})
          \cup (IF "step by step" \in query \/ "how to" \in query
              THEN {"procedural"} ELSE {})
          \cup (IF "predict" \in query \/ "forecast" \in query \/ "future" \in query
              THEN {"predictive"} ELSE {})
          \cup (IF "ethics" \in query \/ "moral" \in query \/ "should" \in query
              THEN {"ethical"} ELSE {})
          \cup (IF "creative" \in query \/ "imagine" \in query \/ "generate" \in query
              THEN {"creative"} ELSE {})
    IN  IF found = {} THEN {"logical"} ELSE found

\* ModelRouter._estimate_response_length
_estimate_response_length(query, word_count) ==
    IF "brief" \in query \/ "short" \in query \/ word_count < 10 THEN "short"
    ELSE IF "detailed" \in query \/ "comprehensive" \in query \/ word_count > 30 THEN "long"
    ELSE "medium"

\* ModelRouter._extract_task_features
_extract_task_features(task) ==
    LET tools_count == Cardinality(task.tools_allowed)
    IN  [ complexity |->
            IF task.query_length > 500 \/ tools_count > 5 \/ task.context_size > 10000
               THEN "high"
            ELSE IF task.query_length > 200 \/ tools_count > 2 \/ task.context_size > 3000
               THEN "medium"
            ELSE "low",
          agent_type |-> task.agent_type,
          task_type |-> _classify_task_type(task.query, task.tools_allowed),
          reasoning_types |-> _detect_reasoning_types(task.query),
          expected_response_length |-> _estimate_response_length(task.query, task.word_count),
          has_real_time_constraint |-> ("urgent" \in task.query \/ "immediate" \in task.query) ]

TaskTypes == { _classify_task_type(t.query, t.tools_allowed) : t \in Tasks }

\* a metrics dict; a numeric key that is missing is -1, another missing key None
NoMetrics == [success_rate |-> -1, avg_latency |-> -1, accuracy |-> -1,
              token_efficiency |-> -1, task_type |-> None, success |-> None]

\* dict.get(key, default)
Get(value, default) == IF value = -1 THEN default ELSE value

Max(a, b) == IF a >= b THEN a ELSE b

NoHistory == [t \in TaskTypes |-> [k \in ModelKeys |-> [total |-> 0, successes |-> 0]]]

\* ModelRouter._get_system_load, in hundredths
_get_system_load == 50

\* ModelRouter._calculate_model_score
_calculate_model_score(model_conf, task_features, metrics_store) ==
    LET capabilities == model_conf.capabilities
        complexity_score ==
            IF task_features.complexity = "high" /\ "handles_complex_tasks" \in capabilities
               THEN Points(30)
            ELSE IF task_features.complexity = "medium" /\ "handles_medium_tasks" \in capabilities
               THEN Points(20)
            ELSE IF task_features.complexity = "low" THEN Points(10)
            ELSE 0
        agent_score ==
            (IF task_features.agent_type = "multi_agent"
                /\ "multi_agent_coordination" \in capabilities THEN Points(15) ELSE 0)
            + (IF task_features.agent_type = "human_in_loop"
                /\ "human_interaction" \in capabilities THEN Points(15) ELSE 0)
        reasoning_score ==
            Points(10) * Cardinality({ r \in task_features.reasoning_types :
                ( CASE r = "causal" -> "causal_reasoning"
                    [] r = "comparative" -> "comparative_reasoning"
                    [] r = "procedural" -> "procedural_reasoning"
                    [] r = "predictive" -> "predictive_reasoning"
                    [] r = "ethical" -> "ethical_reasoning"
                    [] r = "creative" -> "creative_reasoning"
                    [] r = "logical" -> "logical_reasoning" ) \in capabilities })
        length_score ==
            IF task_features.expected_response_length = "long"
               /\ "handles_long_generation" \in capabilities THEN Points(15)
            ELSE IF task_features.expected_response_length = "short"
               /\ "efficient_short_responses" \in capabilities THEN Points(10)
            ELSE 0
        history_score ==
            IF model_conf.name \in DOMAIN metrics_store
               THEN LET metrics == metrics_store[model_conf.name]
                        avg_latency == Get(metrics.avg_latency, 1000000)
                    IN  Get(metrics.success_rate, 500000) * 20
                        + Max(0, Points(15) - 3 * avg_latency)
                        + Get(metrics.accuracy, 500000) * 25
                        + Get(metrics.token_efficiency, 500000) * 10
                        - (IF task_features.has_real_time_constraint /\ avg_latency > 3000000
                              THEN Points(30) ELSE 0)
               ELSE 0
        resource_score == model_conf.resource_efficiency * 100000
        quantization_score ==
            IF model_conf.quantization # None /\ task_features.complexity # "high"
               THEN Points(5) ELSE 0
        parallel_score ==
            IF model_conf.backend = "vLLM" /\ model_conf.tensor_parallel_size > 1
               THEN Points(5) ELSE 0
    IN  complexity_score + agent_score + reasoning_score + length_score
        + history_score + resource_score + quantization_score + parallel_score

\* ModelRouter._apply_resource_constraints
_apply_resource_constraints(score, model_conf, task_features, metrics_store) ==
    LET load_adjust ==
            IF _get_system_load > 80
               THEN model_conf.resource_efficiency * 200000
                    - (IF model_conf.backend = "vLLM" /\ model_conf.tensor_parallel_size > 1
                          THEN Points(15) ELSE 0)
               ELSE 0
        realtime_adjust ==
            IF task_features.has_real_time_constraint /\ model_conf.name \in DOMAIN metrics_store
               THEN LET avg_latency == Get(metrics_store[model_conf.name].avg_latency, 1000000)
                    IN  IF avg_latency < 500000 THEN Points(25)
                        ELSE IF avg_latency < 1000000 THEN Points(15)
                        ELSE 0
               ELSE 0
    IN  score + load_adjust + realtime_adjust

\* ModelRouter._get_task_specific_models: the keys with total > 0 and their
\* success rate for the task type
TaskSpecificKeys(task_type, history) ==
    { k \in ModelKeys : history[task_type][k].total > 0 }

_get_task_specific_models(task_type, history) ==
    [ k \in TaskSpecificKeys(task_type, history) |->
        (history[task_type][k].successes * 1000000) \div history[task_type][k].total ]

\* the score select_model gives one catalog entry (lines 98-110)
ModelScore(model_conf, task_features, metrics_store, history) ==
    LET task_specific_models == _get_task_specific_models(task_features.task_type, history)
        base == _calculate_model_score(model_conf, task_features, metrics_store)
        adjusted ==
            IF model_conf.name \in DOMAIN task_specific_models
               THEN base + task_specific_models[model_conf.name] * 25
               ELSE base
    IN  _apply_resource_constraints(adjusted, model_conf, task_features, metrics_store)

\* an unstable descending insertion: a later element goes before its equals
InsertDesc_LaterFirst(sorted, item) ==
    LET k == Cardinality({ i \in 1..Len(sorted) : sorted[i].score > item.score })
    IN  SubSeq(sorted, 1, k) \o <<item>> \o SubSeq(sorted, k + 1, Len(sorted))

\* list.sort(key=score, reverse=True): stable, so among equal scores the
\* earlier element stays first
InsertDesc(sorted, item) ==
    LET k == Cardinality({ i \in 1..Len(sorted) : sorted[i].score >= item.score })
    IN  SubSeq(sorted, 1, k) \o <<item>> \o SubSeq(sorted, k + 1, Len(sorted))

RECURSIVE SortDesc(_)
SortDesc(model_scores) ==
    IF model_scores = <<>> THEN <<>>
    ELSE InsertDesc(SortDesc(SubSeq(model_scores, 1, Len(model_scores) - 1)),
                    model_scores[Len(model_scores)])

\* the (entry, score) list left in catalog order
SortedModelScores_Unsorted(catalog, task, metrics_store, history) ==
    [ i \in 1..Len(catalog) |->
        [index |-> i,
         score |-> ModelScore(catalog[i], _extract_task_features(task), metrics_store, history)] ]

\* the (entry, score) list of select_model after sorting
SortedModelScores(catalog, task, metrics_store, history) ==
    SortDesc([ i \in 1..Len(catalog) |->
        [index |-> i,
         score |-> ModelScore(catalog[i], _extract_task_features(task), metrics_store, history)] ])

\* ModelRouter._record_model_selection
_record_model_selection(history, task_type, model_name) ==
    [history EXCEPT ![task_type][model_name].total = @ + 1]

\* ModelRouter.select_model as a function of what it reads: the selected
\* entry and what the call leaves behind.  The selection is recorded in the
\* task history before the LLMConfig is built; LLMBackendType(backend) raises
\* ValueError for a backend string that is not a value of the enum, and then
\* neither the reason nor the usage statistics are produced.
SelectModel(catalog, task, metrics_store, history) ==
    LET task_type == _extract_task_features(task).task_type
        model_scores == SortedModelScores(catalog, task, metrics_store, history)
        selected == model_scores[1]
        selected_model_conf == catalog[selected.index]
        raises == selected_model_conf.backend \notin LLMBackendType
    IN  [ status |-> IF raises THEN "raised" ELSE "returned",
          index |-> selected.index,
          name |-> selected_model_conf.name,
          model_path |-> IF raises THEN None ELSE selected_model_conf.model_path,
          reason_score |-> IF raises THEN -1 ELSE selected.score,
          history |-> _record_model_selection(history, task_type, selected_model_conf.name) ]

select_model(task) ==
    /\ router_ops < MaxRouterOps
    /\ router_ops' = router_ops + 1
    /\ LET sel == SelectModel(models_config, task, model_metrics, task_history)
       IN  /\ sel_pre' = [metrics |-> model_metrics, history |-> task_history, task |-> task]
           /\ task_history' = sel.history
           /\ sel_result' = [status |-> sel.status, index |-> sel.index,
                             model_path |-> sel.model_path,
                             reason_score |-> sel.reason_score]
           /\ model_usage' = IF sel.status = "returned"
                                THEN [model_usage EXCEPT ![sel.name] = @ + 1]
                                ELSE model_usage
    /\ UNCHANGED <<models_config, model_metrics, ones_fed>>
    /\ UNCHANGED <<wfVars, toolVars, agentVars, sandboxVars, storeVars, coVars>>

\* a moving average that weighs the old value 0.99 and the new one 0.01
Ema_Slow(old, new) == (old * 99 + new + 50) \div 100

\* one exponential moving average step: old * 0.9 + new * 0.1
Ema(old, new) == (old * 9 + new + 5) \div 10

\* the metrics dicts passed to update_model_metrics: what AgentCore.execute
\* sends after a success and after a failure, and a manual update of the
\* task outcome only (routes/model_router_api.py)
Observations ==
    { [success_rate |-> 1000000, avg_latency |-> 800000, accuracy |-> 800000,
       token_efficiency |-> 500000, task_type |-> "summarization", success |-> "True"],
      [success_rate |-> 0, avg_latency |-> 4000000, accuracy |-> -1,
       token_efficiency |-> -1, task_type |-> "summarization", success |-> "False"],
      [NoMetrics EXCEPT !.task_type = "summarization", !.success = "True"] }

\* ModelRouter.update_model_metrics: the metrics dict it stores for the key
UpdatedMetrics(metrics_store, model_name, metrics) ==
    LET current_metrics == IF model_name \in DOMAIN metrics_store
                              THEN metrics_store[model_name] ELSE NoMetrics
        updated ==
          [ success_rate |->
              IF metrics.success_rate # -1
                 THEN Ema(Get(current_metrics.success_rate, 500000), metrics.success_rate)
                 ELSE current_metrics.success_rate,
            avg_latency |->
              IF metrics.avg_latency # -1
                 THEN Ema(Get(current_metrics.avg_latency, 1000000), metrics.avg_latency)
                 ELSE current_metrics.avg_latency,
            accuracy |->
              IF metrics.accuracy # -1
                 THEN Ema(Get(current_metrics.accuracy, 500000), metrics.accuracy)
                 ELSE current_metrics.accuracy,
            token_efficiency |->
              IF metrics.token_efficiency # -1
                 THEN Ema(Get(current_metrics.token_efficiency, 500000),
                          metrics.token_efficiency)
                 ELSE current_metrics.token_efficiency,
            task_type |-> IF metrics.task_type # None
                             THEN metrics.task_type ELSE current_metrics.task_type,
            success |-> IF metrics.success # None
                           THEN metrics.success ELSE current_metrics.success ]
    IN  [ k \in DOMAIN metrics_store \cup {model_name} |->
            IF k = model_name THEN updated ELSE metrics_store[k] ]

\* ModelRouter.update_model_metrics: the task-specific counters (lines 495-510)
UpdatedHistory(history, model_name, metrics) ==
    IF metrics.task_type # None /\ metrics.success # None
       THEN [history EXCEPT ![metrics.task_type][model_name] =
               [total |-> @.total + 1,
                successes |-> IF metrics.success = "True"
                                 THEN @.successes + 1 ELSE @.successes]]
       ELSE history

\* the run of success_rate = 1.0 observations fed to a key from a blank entry
FedOnes(fed, model_name, metrics) ==
    [fed EXCEPT ![model_name] =
        IF metrics.success_rate = 1000000 /\ @ >= 0 THEN @ + 1 ELSE -1]

update_model_metrics(model_name, metrics) ==
    /\ router_ops < MaxRouterOps
    /\ router_ops' = router_ops + 1
    /\ model_metrics' = UpdatedMetrics(model_metrics, model_name, metrics)
    /\ task_history' = UpdatedHistory(task_history, model_name, metrics)
    /\ ones_fed' = FedOnes(ones_fed, model_name, metrics)
    /\ UNCHANGED <<models_config, model_usage, sel_result, sel_pre>>
    /\ UNCHANGED <<wfVars, toolVars, agentVars, sandboxVars, storeVars, coVars>>

\* the defaults _calculate_model_score uses for the keys missing from a
\* stored metrics dict
NeutralMetrics == [NoMetrics EXCEPT !.success_rate = 500000, !.avg_latency = 1000000,
                                    !.accuracy = 500000, !.token_efficiency = 500000]

\* model_metrics.json and task_history.json as an earlier process left them:
\* no files; for the X/Y catalog, a success_rate of 0.9 for X and 0.2 for Y;
\* the same after X was selected twice for summarization tasks and both got
\* a manual update reporting a successful summarization; metrics equal to the
\* neutral values for X and none for Y
LoadedStores(catalog) ==
    { [metrics |-> EmptyFn, history |-> NoHistory] }
    \cup
    IF { catalog[i].name : i \in 1..Len(catalog) } = {"X", "Y"}
       THEN { [metrics |-> [k \in {"X", "Y"} |->
                    [NoMetrics EXCEPT !.success_rate = IF k = "X" THEN 900000 ELSE 200000]],
               history |-> NoHistory],
              [metrics |-> [k \in {"X", "Y"} |->
                    [NoMetrics EXCEPT !.success_rate = IF k = "X" THEN 900000 ELSE 200000,
                                      !.task_type = "summarization", !.success = "True"]],
               history |-> [NoHistory EXCEPT
                    !["summarization"]["X"] = [total |-> 3, successes |-> 1],
                    !["summarization"]["Y"] = [total |-> 1, successes |-> 1]]],
              [metrics |-> [k \in {"X"} |-> NeutralMetrics], history |-> NoHistory] }
       ELSE {}

\* ModelRouter.__init__ (get_model_router): the catalog, the stores loaded
\* from the files
RouterInit ==
    /\ models_config \in Catalogs
    /\ \E store \in LoadedStores(models_config) :
          /\ model_metrics = store.metrics
          /\ task_history = store.history
    /\ model_usage = [k \in ModelKeys |-> 0]
    /\ sel_result = [status |-> "none", index |-> 0, model_path |-> None, reason_score |-> -1]
    /\ sel_pre = [metrics |-> EmptyFn, history |-> NoHistory, task |-> None]
    /\ router_ops = 0
    /\ ones_fed = [k \in ModelKeys |->
                      IF k \in DOMAIN model_metrics /\ model_metrics[k].success_rate # -1
                         THEN -1 ELSE 0]

\* update_model_metrics(model_name, {"success_rate": rate}) on a router that
\* serves a long run of updates
update_success_rate(model_name, rate) ==
    LET metrics == [NoMetrics EXCEPT !.success_rate = rate]
    IN  /\ router_ops < MaxUpdates
        /\ router_ops' = router_ops + 1
        /\ model_metrics' = UpdatedMetrics(model_metrics, model_name, metrics)
        /\ task_history' = UpdatedHistory(task_history, model_name, metrics)
        /\ ones_fed' = FedOnes(ones_fed, model_name, metrics)
        /\ UNCHANGED <<models_config, model_usage, sel_result, sel_pre>>
        /\ UNCHANGED <<wfVars, toolVars, agentVars, sandboxVars, storeVars, coVars>>

EmaStep ==
    \/ \E rate \in {0, 1000000} : update_success_rate(models_config[1].name, rate)

RouterStep ==
    \/ \E task \in Tasks : select_model(task)
    \/ \E model_name \in CatalogKeys(models_config), metrics \in Observations :
          update_model_metrics(model_name, metrics)

(***************************************************************************)
(* AgentCore: agents/core/base_agent.py                                    *)
(***************************************************************************)
\* the Tasks given to execute(): what the router reads, and max_steps
\* (Optional[int], default 10)
AgentTasks ==
    { [spec |-> t, max_steps |-> m] : t \in Tasks, m \in {3} }
    \cup
    { [spec |-> [query |-> {"summarize"}, query_length |-> 600, word_count |-> 3,
                 tools_allowed |-> {}, agent_type |-> a, context_size |-> 0],
       max_steps |-> m] : a \in {"react"}, m \in {0, 1, 2} }
    \cup
    { [spec |-> [query |-> {"summarize"}, query_length |-> 600, word_count |-> 3,
                 tools_allowed |-> {}, agent_type |-> "autogen", context_size |-> 0],
       max_steps |-> 1] }

\* the methods of LocalTracer that index self.current_trace, which holds the
\* trace id string, and therefore raise TypeError while a trace is active;
\* a disabled tracer and the LangSmith tracer never raise
TracerRaises(method) ==
    /\ tracer = "local"
    /\ method \in {"log_plan", "log_tool_start", "log_tool_end", "log_error"}

\* AgentCore._get_task_type
_get_task_type(query) ==
    IF "summarize" \in query \/ "summary" \in query THEN "summarization"
    ELSE IF "translate" \in query THEN "translation"
    ELSE IF "code" \in query \/ "function" \in query \/ "programming" \in query THEN "coding"
    ELSE IF "search" \in query \/ "find information" \in query THEN "information_retrieval"
    ELSE IF "creative" \in query \/ "write a story" \in query \/ "poem" \in query
         THEN "creative_writing"
    ELSE IF "analyze" \in query \/ "data" \in query THEN "data_analysis"
    ELSE "general"

\* AgentCore._init_fallback_models: the default entries with
\* resource_efficiency > 0.8; LLMBackendType(backend) raises ValueError on the
\* first of them whose backend string is not an enum value
FallbackCandidates ==
    SelectSeq(get_default_models_config, LAMBDA m : m.resource_efficiency > 80)

_init_fallback_models ==
    LET bad == { i \in 1..Len(FallbackCandidates) :
                    FallbackCandidates[i].backend \notin LLMBackendType }
        built == IF bad = {} THEN Len(FallbackCandidates)
                 ELSE (CHOOSE i \in bad : \A j \in bad : i <= j) - 1
    IN  [raised |-> bad # {},
         fallback_models |-> [i \in 1..built |-> FallbackCandidates[i].model_path]]

NoReact == [step |-> 0, thoughts |-> 0, actions |-> 0, pass |-> 0,
            done |-> FALSE,
            next_action_calls |-> 0, execute_tool_calls |-> 0, pending_tool |-> FALSE]

NoResult == [success |-> None, error |-> None, model_path |-> None,
             thoughts |-> 0, actions |-> 0]

\* task.max_steps or 10
DefaultMaxSteps == 10
EffectiveMaxSteps(max_steps) == IF max_steps = 0 THEN DefaultMaxSteps ELSE max_steps

\* an exception reaches the except clause of execute (line 167)
Fail(step) ==
    /\ agent_pc' = "error"
    /\ failed_at' = IF failed_at = None THEN step ELSE failed_at

\* execute, lines 73-74: tracer.start_trace and the start time
execute(t) ==
    /\ agent_pc = "idle"
    /\ tasks_started < MaxTasks
    /\ tasks_started' = tasks_started + 1
    /\ agent_task' = t
    /\ agent_pc' = "context_retrieval"
    /\ selected_llm' = None
    /\ react' = NoReact
    /\ agent_result' = NoResult
    /\ exec_outcome' = "none"
    /\ failed_at' = None
    /\ plan_error' = None
    /\ fallbacks_tried' = 0
    /\ metric_updates' = <<>>
    /\ UNCHANGED <<tracer, current_model_path, fallback_models, routerVars>>
    /\ UNCHANGED <<wfVars, toolVars, sandboxVars, storeVars, coVars>>

\* line 78: await self.memory.retrieve(task.context_key)
RetrieveContext(ok) ==
    /\ agent_pc = "context_retrieval"
    /\ IF ok THEN agent_pc' = "model_selection" /\ UNCHANGED failed_at
             ELSE Fail("context_retrieval")
    /\ UNCHANGED <<plan_error, fallbacks_tried, metric_updates>>
    /\ UNCHANGED <<agent_task, tracer, current_model_path, fallback_models, selected_llm,
                   react, agent_result, exec_outcome, tasks_started, routerVars>>
    /\ UNCHANGED <<wfVars, toolVars, sandboxVars, storeVars, coVars>>

\* lines 81-90: select_model, log_model_selection, current_model_path,
\* get_llm_backend (which raises when the backend cannot be loaded)
SelectAndLoadModel(backend_ok) ==
    /\ agent_pc = "model_selection"
    /\ LET sel == SelectModel(models_config, agent_task.spec, model_metrics, task_history)
       IN  /\ task_history' = sel.history
           /\ sel_pre' = [metrics |-> model_metrics, history |-> task_history,
                          task |-> agent_task.spec]
           /\ sel_result' = [status |-> sel.status, index |-> sel.index,
                             model_path |-> sel.model_path,
                             reason_score |-> sel.reason_score]
           /\ model_usage' = IF sel.status = "returned"
                                THEN [model_usage EXCEPT ![sel.name] = @ + 1]
                                ELSE model_usage
           /\ IF sel.status = "raised"
                 THEN /\ Fail("select_model")
                      /\ UNCHANGED <<current_model_path, selected_llm>>
                 ELSE /\ current_model_path' = sel.model_path
                      /\ IF backend_ok
                            THEN /\ selected_llm' = sel.model_path
                                 /\ agent_pc' = "plan_generation"
                                 /\ UNCHANGED failed_at
                            ELSE /\ Fail("get_llm_backend")
                                 /\ UNCHANGED selected_llm
    /\ UNCHANGED <<plan_error, fallbacks_tried, metric_updates>>
    /\ UNCHANGED <<agent_task, tracer, fallback_models, react, agent_result, exec_outcome, tasks_started,
                   models_config, model_metrics, router_ops, ones_fed>>
    /\ UNCHANGED <<wfVars, toolVars, sandboxVars, storeVars, coVars>>

\* lines 93-117: generate_plan and log_plan inside the inner try; on an
\* exception (plan_error) the fallback list is built if empty, inside the
\* handler, so that an exception of _init_fallback_models replaces plan_error
\* and goes to the outer except clause; otherwise each fallback is tried in
\* order (plan_ok[i] tells whether fallback i produces a plan) and when none
\* succeeds plan_error is re-raised
GeneratePlan(ok, plan_ok) ==
    /\ agent_pc = "plan_generation"
    /\ IF ok /\ ~ TracerRaises("log_plan")
          THEN /\ agent_pc' = "execution"
               /\ UNCHANGED <<failed_at, fallback_models, selected_llm, current_model_path,
                              plan_error, fallbacks_tried>>
          ELSE LET inner == IF ok THEN "log_plan" ELSE "generate_plan"
                   init == IF fallback_models = <<>>
                              THEN _init_fallback_models
                              ELSE [raised |-> FALSE, fallback_models |-> fallback_models]
                   good == { i \in 1..Len(init.fallback_models) : plan_ok[i] }
                   first == CHOOSE i \in good : \A j \in good : i <= j
               IN  /\ plan_error' = inner
                   /\ fallback_models' = init.fallback_models
                   /\ IF init.raised
                         THEN /\ Fail("_init_fallback_models")
                              /\ fallbacks_tried' = 0
                              /\ UNCHANGED <<selected_llm, current_model_path>>
                      ELSE IF good = {}
                         THEN /\ Fail(inner)
                              /\ fallbacks_tried' = Len(init.fallback_models)
                              /\ UNCHANGED <<selected_llm, current_model_path>>
                         ELSE /\ selected_llm' = init.fallback_models[first]
                              /\ current_model_path' = init.fallback_models[first]
                              /\ fallbacks_tried' = first
                              /\ agent_pc' = "execution"
                              /\ UNCHANGED failed_at
    /\ UNCHANGED metric_updates
    /\ UNCHANGED <<agent_task, tracer, react, agent_result, exec_outcome, tasks_started, routerVars>>
    /\ UNCHANGED <<wfVars, toolVars, sandboxVars, storeVars, coVars>>

\* lines 120-127: dispatch on task.agent_type.  multi_agent hands the plan to
\* the workflow engine, which returns a result or raises.
Dispatch(wf_outcome) ==
    /\ agent_pc = "execution"
    /\ IF agent_task.spec.agent_type \in {"react", "human_in_loop"}
          THEN /\ agent_pc' = "react"
               /\ react' = [NoReact EXCEPT !.pass = 1]
               /\ UNCHANGED <<agent_result, failed_at>>
       ELSE IF agent_task.spec.agent_type = "multi_agent" /\ wf_outcome # "raise"
          THEN /\ agent_pc' = "store"
               /\ agent_result' = [NoResult EXCEPT !.success = wf_outcome]
               /\ UNCHANGED <<react, failed_at>>
       ELSE /\ Fail("execution")
            /\ UNCHANGED <<react, agent_result>>
    /\ UNCHANGED <<plan_error, fallbacks_tried, metric_updates>>
    /\ UNCHANGED <<agent_task, tracer, current_model_path, fallback_models, selected_llm,
                   exec_outcome, tasks_started, routerVars>>
    /\ UNCHANGED <<wfVars, toolVars, sandboxVars, storeVars, coVars>>

\* _execute_react, lines 256-263 and 282-297: one get_next_action call of the
\* for loop, or, when the loop is over, generate_final_answer and the result.
\* _execute_human_in_loop runs a second pass after the first answer when the
\* plan requires human validation ("answer"), else returns the first result.
ReactNextAction(action) ==
    /\ agent_pc = "react"
    /\ ~ react.pending_tool
    /\ IF ~ react.done /\ react.step < EffectiveMaxSteps(agent_task.max_steps)
          THEN /\ action \in {"tool", "done", "raise"}
               /\ IF action = "raise"
                     THEN /\ Fail("execution")
                          /\ react' = [react EXCEPT !.next_action_calls = @ + 1]
                     ELSE /\ react' = [react EXCEPT
                                !.next_action_calls = @ + 1,
                                !.thoughts = @ + 1,
                                !.pending_tool = (action = "tool"),
                                !.done = (action = "done")]
                          /\ UNCHANGED <<agent_pc, failed_at>>
               /\ UNCHANGED agent_result
          ELSE /\ action \in {"answer", "answer_unvalidated", "raise"}
               /\ IF action = "raise"
                     THEN /\ Fail("execution")
                          /\ UNCHANGED <<react, agent_result>>
                  ELSE IF agent_task.spec.agent_type = "human_in_loop" /\ react.pass = 1
                          /\ action = "answer"
                     THEN /\ react' = [NoReact EXCEPT !.pass = 2]
                          /\ UNCHANGED <<agent_pc, agent_result, failed_at>>
                     ELSE /\ agent_result' = [NoResult EXCEPT !.success = "True",
                                           !.thoughts = react.thoughts,
                                           !.actions = react.actions]
                          /\ agent_pc' = "store"
                          /\ UNCHANGED <<react, failed_at>>
    /\ UNCHANGED <<plan_error, fallbacks_tried, metric_updates>>
    /\ UNCHANGED <<agent_task, tracer, current_model_path, fallback_models, selected_llm,
                   exec_outcome, tasks_started, routerVars>>
    /\ UNCHANGED <<wfVars, toolVars, sandboxVars, storeVars, coVars>>

\* the tool call of _execute_react without the append to actions
ReactExecuteTool_NoRecord ==
    /\ agent_pc = "react"
    /\ react.pending_tool
    /\ IF TracerRaises("log_tool_start")
          THEN /\ Fail("log_tool_start")
               /\ react' = [react EXCEPT !.pending_tool = FALSE]
          ELSE /\ react' = [react EXCEPT !.execute_tool_calls = @ + 1,
                                         !.step = @ + 1,
                                         !.pending_tool = FALSE]
               /\ UNCHANGED <<agent_pc, failed_at>>
    /\ UNCHANGED <<plan_error, fallbacks_tried, metric_updates>>
    /\ UNCHANGED <<agent_task, tracer, current_model_path, fallback_models, selected_llm,
                   agent_result, exec_outcome, tasks_started, routerVars>>
    /\ UNCHANGED <<wfVars, toolVars, sandboxVars, storeVars, coVars>>

\* _execute_react, lines 266-280: log_tool_start, execute_tool (which returns
\* a value or an error value, never raises), log_tool_end, the action record
ReactExecuteTool ==
    /\ agent_pc = "react"
    /\ react.pending_tool
    /\ IF TracerRaises("log_tool_start")
          THEN /\ Fail("log_tool_start")
               /\ react' = [react EXCEPT !.pending_tool = FALSE]
          ELSE /\ react' = [react EXCEPT !.execute_tool_calls = @ + 1,
                                         !.actions = @ + 1,
                                         !.step = @ + 1,
                                         !.pending_tool = FALSE]
               /\ UNCHANGED <<agent_pc, failed_at>>
    /\ UNCHANGED <<plan_error, fallbacks_tried, metric_updates>>
    /\ UNCHANGED <<agent_task, tracer, current_model_path, fallback_models, selected_llm,
                   agent_result, exec_outcome, tasks_started, routerVars>>
    /\ UNCHANGED <<wfVars, toolVars, sandboxVars, storeVars, coVars>>

\* line 130: await self.memory.store(task.result_key, result)
StoreResult(ok) ==
    /\ agent_pc = "store"
    /\ IF ok THEN agent_pc' = "metrics" /\ UNCHANGED failed_at
             ELSE Fail("result_storage")
    /\ UNCHANGED <<plan_error, fallbacks_tried, metric_updates>>
    /\ UNCHANGED <<agent_task, tracer, current_model_path, fallback_models, selected_llm,
                   react, agent_result, exec_outcome, tasks_started, routerVars>>
    /\ UNCHANGED <<wfVars, toolVars, sandboxVars, storeVars, coVars>>

\* the metrics dict execute() sends to the router (lines 148-156, 179-185)
AgentObservation(success, on_error_path) ==
    [ success_rate |-> IF success THEN 1000000 ELSE 0,
      avg_latency |-> 800000,
      accuracy |-> IF on_error_path THEN -1 ELSE IF success THEN 800000 ELSE 0,
      token_efficiency |-> IF on_error_path THEN -1 ELSE 500000,
      task_type |-> _get_task_type(agent_task.spec.query),
      success |-> IF success THEN "True" ELSE "False" ]

\* lines 133-166 and the finally clause: get_performance_metrics,
\* update_model_metrics keyed by current_model_path, the metrics added to the
\* result, return, end_trace
RecordMetrics(ok) ==
    /\ agent_pc = "metrics"
    /\ IF ok
          THEN LET obs == AgentObservation(agent_result.success = "True", FALSE)
               IN  /\ model_metrics' = UpdatedMetrics(model_metrics, current_model_path, obs)
                   /\ task_history' = UpdatedHistory(task_history, current_model_path, obs)
                   /\ ones_fed' = FedOnes(ones_fed, current_model_path, obs)
                   /\ metric_updates' = Append(metric_updates, current_model_path)
                   /\ agent_result' = [agent_result EXCEPT !.model_path = current_model_path]
                   /\ agent_pc' = "done"
                   /\ exec_outcome' = "returned"
                   /\ UNCHANGED failed_at
          ELSE /\ Fail("metrics_recording")
               /\ UNCHANGED <<model_metrics, task_history, ones_fed, agent_result,
                              exec_outcome, metric_updates>>
    /\ UNCHANGED <<plan_error, fallbacks_tried>>
    /\ UNCHANGED <<agent_task, tracer, current_model_path, fallback_models, selected_llm,
                   react, tasks_started, models_config, model_usage, sel_result,
                   sel_pre, router_ops>>
    /\ UNCHANGED <<wfVars, toolVars, sandboxVars, storeVars, coVars>>

\* the except clause, lines 167-197, and the finally clause: log_error is
\* called first and is not guarded, so an exception it raises leaves execute()
HandleError ==
    /\ agent_pc = "error"
    /\ agent_pc' = "done"
    /\ IF TracerRaises("log_error")
          THEN /\ exec_outcome' = "escaped"
               /\ UNCHANGED <<agent_result, model_metrics, task_history, ones_fed,
                              metric_updates>>
          ELSE /\ exec_outcome' = "returned"
               /\ agent_result' = [NoResult EXCEPT !.success = "False", !.error = failed_at]
               /\ IF current_model_path # None
                     THEN LET obs == AgentObservation(FALSE, TRUE)
                          IN  /\ model_metrics' = UpdatedMetrics(model_metrics,
                                                                 current_model_path, obs)
                              /\ task_history' = UpdatedHistory(task_history,
                                                                current_model_path, obs)
                              /\ ones_fed' = FedOnes(ones_fed, current_model_path, obs)
                              /\ metric_updates' = Append(metric_updates, current_model_path)
                     ELSE UNCHANGED <<model_metrics, task_history, ones_fed, metric_updates>>
    /\ UNCHANGED <<plan_error, fallbacks_tried>>
    /\ UNCHANGED <<agent_task, tracer, current_model_path, fallback_models, selected_llm,
                   react, failed_at, tasks_started, models_config, model_usage,
                   sel_result, sel_pre, router_ops>>
    /\ UNCHANGED <<wfVars, toolVars, sandboxVars, storeVars, coVars>>

\* the caller has the result (or the exception); the agent takes the next task
NextTask ==
    /\ agent_pc = "done"
    /\ tasks_started < MaxTasks
    /\ agent_pc' = "idle"
    /\ UNCHANGED <<plan_error, fallbacks_tried, metric_updates>>
    /\ UNCHANGED <<agent_task, tracer, current_model_path, fallback_models, selected_llm,
                   react, agent_result, exec_outcome, failed_at, tasks_started, routerVars>>
    /\ UNCHANGED <<wfVars, toolVars, sandboxVars, storeVars, coVars>>

\* AgentCore.__init__
AgentInit ==
    /\ agent_pc = "idle"
    /\ agent_task = None
    /\ tracer \in {"quiet", "local"}
    /\ current_model_path = None
    /\ fallback_models = <<>>
    /\ selected_llm = None
    /\ react = NoReact
    /\ agent_result = NoResult
    /\ exec_outcome = "none"
    /\ failed_at = None
    /\ tasks_started = 0
    /\ plan_error = None
    /\ fallbacks_tried = 0
    /\ metric_updates = <<>>

AgentIdle == AgentInit /\ tracer = "quiet"

AgentStep ==
    \/ \E t \in AgentTasks : execute(t)
    \/ \E ok \in BOOLEAN : RetrieveContext(ok)
    \/ \E backend_ok \in BOOLEAN : SelectAndLoadModel(backend_ok)
    \/ \E ok \in BOOLEAN, plan_ok \in [1..Len(FallbackCandidates) -> BOOLEAN] : GeneratePlan(ok, plan_ok)
    \/ \E wf_outcome \in {"True", "False", "raise"} : Dispatch(wf_outcome)
    \/ \E action \in {"tool", "done", "answer", "answer_unvalidated", "raise"} :
          ReactNextAction(action)
    \/ ReactExecuteTool
    \/ \E ok \in BOOLEAN : StoreResult(ok)
    \/ \E ok \in BOOLEAN : RecordMetrics(ok)
    \/ HandleError
    \/ NextTask

(***************************************************************************)
(* ToolSandbox: agents/security/sandbox.py                                 *)
(***************************************************************************)
\* the language arguments given to run_code, and str.lower on them
Languages == {"python", "Python", "ruby"}
Lower(language) == IF language = "Python" THEN "python" ELSE language

OsNames == {"posix", "nt", "java"}

\* temporary files are named by the call that created them (1, 2, ...)
Unbound == 0

NoRunResult == [status |-> "none", success |-> None, exit_code |-> -1, error |-> None]

\* the dict of the except clause, lines 111-119
ErrorResult(error) ==
    [status |-> "returned", success |-> "False", exit_code |-> -1, error |-> error]

\* run_code, lines 38-49: an unsupported language returns at once
run_code(language) ==
    /\ sb_pc = "idle"
    /\ runs_started < MaxRuns
    /\ runs_started' = runs_started + 1
    /\ temp_file' = Unbound
    /\ file_created' = Unbound
    /\ process' = "none"
    /\ IF Lower(language) # "python"
          THEN /\ run_result' = ErrorResult("Unsupported language")
               /\ sb_pc' = "returned"
          ELSE /\ run_result' = NoRunResult
               /\ sb_pc' = "create_file"
    /\ UNCHANGED <<os_name, temp_files>>
    /\ UNCHANGED <<wfVars, toolVars, routerVars, agentVars, storeVars, coVars>>

\* lines 53-55: NamedTemporaryFile(delete=False) creates the file, tf.write
\* encodes and writes the code, and only then temp_file is bound; leaving the
\* with block closes the file and keeps it.  An exception goes to the except
\* clause of line 111.
CreateFile(outcome) ==
    /\ sb_pc = "create_file"
    /\ outcome \in {"written", "create_raises", "write_raises"}
    /\ LET name == runs_started
       IN  CASE outcome = "written" ->
                  /\ temp_files' = temp_files \cup {name}
                  /\ file_created' = name
                  /\ temp_file' = name
                  /\ sb_pc' = "create_process"
                  /\ UNCHANGED run_result
             [] outcome = "create_raises" ->
                  /\ run_result' = ErrorResult("create")
                  /\ sb_pc' = "finally"
                  /\ UNCHANGED <<temp_files, file_created, temp_file>>
             [] outcome = "write_raises" ->
                  /\ temp_files' = temp_files \cup {name}
                  /\ file_created' = name
                  /\ run_result' = ErrorResult("write")
                  /\ sb_pc' = "finally"
                  /\ UNCHANGED temp_file
    /\ UNCHANGED <<os_name, process, runs_started>>
    /\ UNCHANGED <<wfVars, toolVars, routerVars, agentVars, storeVars, coVars>>

\* lines 57-75: the command (empty when os.name is neither posix nor nt, so
\* that create_subprocess_exec raises TypeError) and the subprocess
CreateProcess(spawned) ==
    /\ sb_pc = "create_process"
    /\ IF os_name \in {"posix", "nt"} /\ spawned
          THEN /\ process' = "running"
               /\ sb_pc' = "communicate"
               /\ UNCHANGED run_result
          ELSE /\ run_result' = ErrorResult("spawn")
               /\ sb_pc' = "finally"
               /\ UNCHANGED process
    /\ UNCHANGED <<os_name, temp_file, temp_files, file_created, runs_started>>
    /\ UNCHANGED <<wfVars, toolVars, routerVars, agentVars, storeVars, coVars>>

\* lines 77-109: wait_for(process.communicate(), timeout); on TimeoutError
\* the process is killed and the timeout dict is returned
Communicate(timed_out, exit_code) ==
    /\ sb_pc = "communicate"
    /\ IF timed_out
          THEN /\ process' = "killed"
               /\ run_result' = ErrorResult("timed out")
          ELSE /\ process' = "exited"
               /\ run_result' = [status |-> "returned",
                                 success |-> IF exit_code = 0 THEN "True" ELSE "False",
                                 exit_code |-> exit_code, error |-> None]
    /\ sb_pc' = "finally"
    /\ UNCHANGED <<os_name, temp_file, temp_files, file_created, runs_started>>
    /\ UNCHANGED <<wfVars, toolVars, routerVars, agentVars, storeVars, coVars>>

\* the finally clause, lines 121-126: os.unlink(temp_file) inside a bare
\* try/except; with temp_file unbound the NameError is swallowed and nothing
\* is removed
Cleanup ==
    /\ sb_pc = "finally"
    /\ temp_files' = IF temp_file = Unbound THEN temp_files ELSE temp_files \ {temp_file}
    /\ sb_pc' = "returned"
    /\ UNCHANGED <<os_name, temp_file, file_created, process, run_result, runs_started>>
    /\ UNCHANGED <<wfVars, toolVars, routerVars, agentVars, storeVars, coVars>>

\* the caller has the result; the sandbox takes the next call
NextRun ==
    /\ sb_pc = "returned"
    /\ runs_started < MaxRuns
    /\ sb_pc' = "idle"
    /\ UNCHANGED <<os_name, temp_file, temp_files, file_created, process, run_result,
                   runs_started>>
    /\ UNCHANGED <<wfVars, toolVars, routerVars, agentVars, storeVars, coVars>>

\* ToolSandbox.__init__
SandboxInit ==
    /\ sb_pc = "idle"
    /\ os_name \in OsNames
    /\ temp_file = Unbound
    /\ temp_files = {}
    /\ file_created = Unbound
    /\ process = "none"
    /\ run_result = NoRunResult
    /\ runs_started = 0

SandboxIdle == SandboxInit /\ os_name = "posix"

SandboxStep ==
    \/ \E language \in Languages : run_code(language)
    \/ \E outcome \in {"written", "create_raises", "write_raises"} : CreateFile(outcome)
    \/ \E spawned \in BOOLEAN : CreateProcess(spawned)
    \/ \E timed_out \in BOOLEAN, exit_code \in {0, 1} : Communicate(timed_out, exit_code)
    \/ Cleanup
    \/ NextRun

(***************************************************************************)
(* Several ModelRouter objects over the same files: llm/__init__.py,       *)
(* llm/model_router.py                                                     *)
(***************************************************************************)
\* the model every update below is about
SharedModel == "X"

\* no model_metrics.json and no task_history.json
BlankStore == [metrics |-> EmptyFn, history |-> NoHistory]

\* update_model_metrics on the dicts of one router
Applied(store, metrics) ==
    [metrics |-> UpdatedMetrics(store.metrics, SharedModel, metrics),
     history |-> UpdatedHistory(store.history, SharedModel, metrics)]

\* get_model_router / ModelRouter.__init__: every call builds a new router
\* whose dicts are loaded from the two files (AgentCore.__init__ makes one
\* per agent, the /models routes one per request)
get_model_router(i) ==
    /\ routers' = [routers EXCEPT ![i] = disk]
    /\ routers'[i] # routers[i]
    /\ UNCHANGED <<disk, applied, last_writer>>
    /\ UNCHANGED <<wfVars, toolVars, routerVars, agentVars, sandboxVars, coVars>>

\* update_model_metrics called on router i when a task execution completes.
\* The method has no suspension point, so calls on one event loop do not
\* interleave; it ends by dumping the router's own dicts over the files
\* (_save_task_history only when the observation has task_type and success,
\* _save_model_metrics always).
RouterUpdate(i, metrics) ==
    /\ Len(applied) < MaxCalls
    /\ LET updated == Applied(routers[i], metrics)
       IN  /\ routers' = [routers EXCEPT ![i] = updated]
           /\ disk' = [metrics |-> updated.metrics,
                       history |-> IF metrics.task_type # None /\ metrics.success # None
                                      THEN updated.history ELSE disk.history]
    /\ applied' = Append(applied, metrics)
    /\ last_writer' = i
    /\ UNCHANGED <<wfVars, toolVars, routerVars, agentVars, sandboxVars, coVars>>

\* the routers of the agents built at start-up, before any task completed
StoreInit ==
    /\ disk = BlankStore
    /\ routers = [i \in 1..NumRouters |-> disk]
    /\ applied = <<>>
    /\ last_writer = 0

StoreStep ==
    \/ \E i \in 1..NumRouters : get_model_router(i)
    \/ \E i \in 1..NumRouters, metrics \in Observations : RouterUpdate(i, metrics)

(***************************************************************************)
(* AgentCore.execute called again while an earlier call is suspended:      *)
(* agents/core/base_agent.py.  The calls run on one event loop, so the     *)
(* code between two awaits is one step.  The tracer is the quiet one.      *)
(***************************************************************************)
Coroutines == 1..NumCoroutines

\* the model paths select_model can return from the default catalog
CoModels == { get_default_models_config[i].model_path :
                 i \in 1..Len(get_default_models_config) }

\* the except clause and the return of the error result, lines 167-197: the
\* update is keyed by self.current_model_path when that is set, and the
\* error result's metrics hold no model_path
CoExcept(i) ==
    /\ co_pc' = [co_pc EXCEPT ![i] = "returned"]
    /\ co_recorded' = [co_recorded EXCEPT ![i] = core_model_path]
    /\ UNCHANGED <<co_llm, co_result_path, core_model_path>>

\* lines 73-78: start_trace, then the call waits for memory.retrieve
CoExecute(i) ==
    /\ co_pc[i] = "idle"
    /\ co_pc' = [co_pc EXCEPT ![i] = "memory.retrieve"]
    /\ UNCHANGED <<co_llm, co_recorded, co_result_path, core_model_path>>
    /\ UNCHANGED <<wfVars, toolVars, routerVars, agentVars, sandboxVars, storeVars>>

\* lines 78-94: memory.retrieve is back; select_model returns model_path,
\* which goes to self.current_model_path and to selected_llm; the call then
\* waits for generate_plan
CoSelect(i, ok, model_path) ==
    /\ co_pc[i] = "memory.retrieve"
    /\ IF ok
          THEN /\ core_model_path' = model_path
               /\ co_llm' = [co_llm EXCEPT ![i] = model_path]
               /\ co_pc' = [co_pc EXCEPT ![i] = "generate_plan"]
               /\ UNCHANGED <<co_recorded, co_result_path>>
          ELSE CoExcept(i)
    /\ UNCHANGED <<wfVars, toolVars, routerVars, agentVars, sandboxVars, storeVars>>

\* lines 94-125: generate_plan is back; the call waits for _execute_react
\* (or another executor).  When the plan fails, _init_fallback_models raises
\* for the default catalog and the call goes to the except clause.
CoPlan(i, ok) ==
    /\ co_pc[i] = "generate_plan"
    /\ IF ok
          THEN /\ co_pc' = [co_pc EXCEPT ![i] = "_execute"]
               /\ UNCHANGED <<co_llm, co_recorded, co_result_path, core_model_path>>
          ELSE CoExcept(i)
    /\ UNCHANGED <<wfVars, toolVars, routerVars, agentVars, sandboxVars, storeVars>>

\* lines 120-130: the executor is back; the call waits for memory.store
CoRun(i, ok) ==
    /\ co_pc[i] = "_execute"
    /\ IF ok
          THEN /\ co_pc' = [co_pc EXCEPT ![i] = "memory.store"]
               /\ UNCHANGED <<co_llm, co_recorded, co_result_path, core_model_path>>
          ELSE CoExcept(i)
    /\ UNCHANGED <<wfVars, toolVars, routerVars, agentVars, sandboxVars, storeVars>>

\* lines 130-166: memory.store is back; update_model_metrics and
\* result.metrics["model_path"] both read self.current_model_path
CoRecord(i, ok) ==
    /\ co_pc[i] = "memory.store"
    /\ IF ok
          THEN /\ co_pc' = [co_pc EXCEPT ![i] = "returned"]
               /\ co_recorded' = [co_recorded EXCEPT ![i] = core_model_path]
               /\ co_result_path' = [co_result_path EXCEPT ![i] = core_model_path]
               /\ UNCHANGED <<co_llm, core_model_path>>
          ELSE CoExcept(i)
    /\ UNCHANGED <<wfVars, toolVars, routerVars, agentVars, sandboxVars, storeVars>>

\* AgentCore.__init__, and no execute() call made yet
CoInit ==
    /\ co_pc = [i \in Coroutines |-> "idle"]
    /\ co_llm = [i \in Coroutines |-> None]
    /\ co_recorded = [i \in Coroutines |-> None]
    /\ co_result_path = [i \in Coroutines |-> None]
    /\ core_model_path = None

CoStep ==
    \/ \E i \in Coroutines : CoExecute(i)
    \/ \E i \in Coroutines, ok \in BOOLEAN, model_path \in CoModels : CoSelect(i, ok, model_path)
    \/ \E i \in Coroutines, ok \in BOOLEAN : CoPlan(i, ok)
    \/ \E i \in Coroutines, ok \in BOOLEAN : CoRun(i, ok)
    \/ \E i \in Coroutines, ok \in BOOLEAN : CoRecord(i, ok)

\* the components a specification does not exercise stay in one fixed state
ToolsIdle ==
    ToolsInit /\ allowed_tools = {} /\ sandbox_mode = TRUE

RouterIdle ==
    RouterInit /\ models_config = get_default_models_config

vars == <<wfVars, toolVars, routerVars, agentVars, sandboxVars, storeVars, coVars>>

\* the workflow engine alone
InitWF == WFInit /\ ToolsIdle /\ RouterIdle /\ AgentIdle
          /\ SandboxIdle /\ StoreInit /\ CoInit
SpecWF == InitWF /\ [][WFNext]_vars

\* one execute_workflow call on a built graph.  The coroutine is driven to
\* its end by the event loop and every handler returns or raises, so neither
\* the while loop nor the for loop stays enabled for ever without a step.
InitWFLive == WFBuilt /\ ToolsIdle /\ RouterIdle /\ AgentIdle
              /\ SandboxIdle /\ StoreInit /\ CoInit
SpecWFLive ==
    /\ InitWFLive
    /\ [][WFRun]_vars
    /\ WF_vars(WaveBoundary)
    /\ WF_vars(\E node_id \in NodeIds, outcome \in AllOutcomes : ProcessNode(node_id, outcome))

\* the tool registry alone
InitTools == WFInit /\ ToolsInit /\ RouterIdle /\ AgentIdle
             /\ SandboxIdle /\ StoreInit /\ CoInit
SpecTools == InitTools /\ [][ToolsStep]_vars

\* the TOOL node of a workflow over the registry's tools dictionary
InitToolNode == WFInit /\ ToolsInit /\ RouterIdle /\ AgentIdle
                /\ SandboxIdle /\ StoreInit /\ CoInit
SpecToolNode == InitToolNode /\ [][ToolNodeStep]_vars

\* the model router alone
InitRouter == WFInit /\ ToolsIdle /\ RouterInit /\ AgentIdle
              /\ SandboxIdle /\ StoreInit /\ CoInit
SpecRouter == InitRouter /\ [][RouterStep]_vars

\* the moving average alone: one blank key fed up to MaxUpdates observations
InitEma == WFInit /\ ToolsIdle /\ RouterInit /\ AgentIdle
           /\ SandboxIdle /\ StoreInit /\ CoInit
           /\ models_config = <<EntryLone>>
SpecEma == InitEma /\ [][EmaStep]_vars

\* AgentCore with its model router
InitAgent == WFInit /\ ToolsIdle /\ RouterIdle /\ AgentInit
             /\ SandboxIdle /\ StoreInit /\ CoInit
SpecAgent == InitAgent /\ [][AgentStep]_vars

\* the code sandbox alone
InitSandbox == WFInit /\ ToolsIdle /\ RouterIdle /\ AgentIdle
               /\ SandboxInit /\ StoreInit /\ CoInit
SpecSandbox == InitSandbox /\ [][SandboxStep]_vars

\* execute() calls overlapping on one AgentCore
InitCo == WFInit /\ ToolsIdle /\ RouterIdle /\ AgentIdle
          /\ SandboxIdle /\ StoreInit /\ CoInit
SpecCo == InitCo /\ [][CoStep]_vars

\* the routers of one deployment and their files
InitStore == WFInit /\ ToolsIdle /\ RouterIdle /\ AgentIdle
             /\ SandboxIdle /\ StoreInit /\ CoInit
SpecStore == InitStore /\ [][StoreStep]_vars

(***************************************************************************)
(* Properties of the workflow engine (checked under SpecWF)                *)
(***************************************************************************)
\* the nodes reachable from the set S along edges
RECURSIVE Closure(_)
Closure(S) ==
    LET T == S \cup { edges[i].target_node : i \in
                        { j \in 1..Len(edges) : edges[j].source_node \in S } }
    IN  IF T = S THEN S ELSE Closure(T)

Successors(n) ==
    { edges[i].target_node : i \in { j \in 1..Len(edges) : edges[j].source_node = n } }

GraphHasStart == \E n \in DOMAIN nodes : nodes[n] = "start"
GraphHasEnd == \E n \in DOMAIN nodes : nodes[n] = "end"
GraphHasUnreachable ==
    \E s \in DOMAIN nodes : nodes[s] = "start" /\ DOMAIN nodes \ Closure({s}) # {}
GraphHasCycle == \E n \in DOMAIN nodes : n \in Closure(Successors(n))

NoHandlerInvoked == \A n \in NodeIds : invoked[n] = 0

\* C1: a graph that has no START node, has no END node, contains a node
\* unreachable from START or contains a cycle makes validate() report an
\* error, and execute_workflow never invokes a node handler for it.
C1_InvalidGraphNeverExecuted ==
    (~ GraphHasStart \/ ~ GraphHasEnd \/ GraphHasUnreachable \/ GraphHasCycle)
        => /\ validate # {}
           /\ wf_pc \in {"build", "invalid"}
           /\ NoHandlerInvoked

\* the linear graph start -> A -> B -> end, A without a FAILURE edge
LinearGraph ==
    /\ nodes = [n \in NodeIds |-> CASE n = "start" -> "start" [] n = "A" -> "agent"
                                    [] n = "B" -> "tool" [] n = "end" -> "end"]
    /\ start_node = "start"
    /\ end_nodes = {"end"}
    /\ { edges[i] : i \in 1..Len(edges) } =
          { Edge("start", "A", "always", None), Edge("A", "B", "always", None),
            Edge("B", "end", "always", None) }

\* C2: on the linear graph, when A's handler raises, the run does not abort:
\* when it ends A is completed with an error result, B's handler was run and
\* the frontier has reached end.
C2_FailedNodeDoesNotStopLinearRun ==
    (LinearGraph /\ wf_pc = "done" /\ "A" \in raised)
        => /\ "A" \in completed_nodes
           /\ "A" \in DOMAIN results
           /\ results["A"].kind = "error"
           /\ invoked["B"] >= 1
           /\ "end" \in current_nodes

\* C21: a run of a graph that passed validate() ends, and when it has ended
\* the frontier is empty or holds END nodes only.
C21_RunTerminates ==
    (wf_pc = "wave")
        ~> (wf_pc = "done" /\ (current_nodes = {} \/ current_nodes \subseteq end_nodes))

\* a run that took a failure edge and ended on the END node
C21_Witness ==
    /\ wf_pc = "done"
    /\ raised # {}
    /\ current_nodes = {"end"}
    /\ Cardinality(completed_nodes) >= 2

\* C22: the nodes of one wave (the snapshot of the frontier, and what is left
\* of it while the wave is processed) are not connected by an edge.
C22_NoEdgeInsideFrontier ==
    wf_pc = "wave"
        => \A a, b \in nodes_to_process : b \notin Successors(a)

\* the targets a completed node must activate: those of its ALWAYS edges, of
\* its SUCCESS edges when its result says success, of its FAILURE edges when
\* it says failure, and of its CUSTOM edges whose predicate accepts
ExpectedTargets(n, result) ==
    { edges[i].target_node : i \in { j \in 1..Len(edges) :
          /\ edges[j].source_node = n
          /\ \/ edges[j].condition = "always"
             \/ edges[j].condition = "success" /\ result.success = "True"
             \/ edges[j].condition = "failure" /\ result.success = "False"
             \/ edges[j].condition = "custom" /\ edges[j].condition_func = "accepts" } }

\* C23: when a node completes with a result, the frontier receives exactly
\* the targets its result calls for; in particular an AGENT node whose agent
\* reported success=false activates the targets of its FAILURE edges.
C23_EdgesFollowResult ==
    [][\A n \in NodeIds :
          (n \notin DOMAIN results /\ n \in DOMAIN results' /\ results'[n].kind # "error")
              => current_nodes' = current_nodes \cup ExpectedTargets(n, results'[n])]_vars

\* the targets of the FAILURE edges of n
FailureTargets(n) ==
    { edges[i].target_node : i \in { j \in 1..Len(edges) :
          edges[j].source_node = n /\ edges[j].condition = "failure" } }

\* the handler of n was invoked in this step and raised
HandlerRaised(n) ==
    /\ invoked'[n] = invoked[n] + 1
    /\ n \notin DOMAIN results' \/ results'[n].kind = "error"

\* C24: when the handler of a node that has FAILURE edges raises, the
\* frontier receives the targets of those edges and nothing else, and the run
\* goes on.
C24_FailureEdgesOnly ==
    [][\A n \in NodeIds :
          (HandlerRaised(n) /\ FailureTargets(n) # {})
              => /\ current_nodes' = current_nodes \cup FailureTargets(n)
                 /\ wf_pc' = "wave"]_vars

\* A raised, has an ALWAYS edge to B and a FAILURE edge to end, and the
\* frontier holds end alone
C24_Witness ==
    /\ wf_pc = "wave"
    /\ "A" \in raised
    /\ "A" \notin completed_nodes
    /\ \E i \in 1..Len(edges) : edges[i] = Edge("A", "B", "always", None)
    /\ \E i \in 1..Len(edges) : edges[i] = Edge("A", "end", "failure", None)
    /\ current_nodes = {"end"}

\* C25: every tool a workflow TOOL node invokes goes through execute_tool:
\* no tool runs unless is_tool_allowed held for it, and a tool that is
\* unregistered, not allowed, that raises or that exceeds the timeout leaves
\* an error value as the node's result
C25_ToolNodeGoesThroughExecuteTool ==
    tool_pc = "returned" =>
        LET registered == call_name \in DOMAIN tools
            allowed == IF allowed_tools = {} THEN registered
                       ELSE call_name \in allowed_tools /\ registered
        IN  /\ call_ran => allowed
            /\ (~ allowed \/ call_behaviour \in {"raises", "exceeds_timeout"})
                   => call_result = "error"

\* C26: during one run of execute_workflow on a graph that passed validate()
\* the handler of each node is invoked at most once, whether or not it raised
C26_HandlerInvokedAtMostOnce ==
    wf_pc \in {"wave", "done"} => \A n \in DOMAIN invoked : invoked[n] <= 1

\* C20: when a run ends on a frontier made of END nodes, each END node of
\* that frontier was processed and its result is in the final output, under
\* results and under end_nodes, and the output says completed.
C20_ReachedEndNodesAreInOutput ==
    (wf_pc = "done" /\ current_nodes # {} /\ current_nodes \subseteq end_nodes)
        => /\ final_result.completed
           /\ \A n \in current_nodes :
                 /\ n \in completed_nodes
                 /\ n \in DOMAIN final_result.results
                 /\ n \in DOMAIN final_result.end_nodes

\* a key has received ten consecutive success_rate = 1.0 updates from blank
TenOnesFed(k) == k \in DOMAIN model_metrics /\ ones_fed[k] = 10

C13_DictRoundTrip ==
    LET h == from_dict(to_dict)
    IN  /\ ~ h.raised
        /\ h.nodes = nodes
        /\ h.edges = [ i \in 1..Len(edges) |-> [edges[i] EXCEPT !.condition_func = None] ]
        /\ h.start_node = start_node
        /\ h.end_nodes = end_nodes

(***************************************************************************)
(* Properties of AgentCore (checked under SpecAgent)                       *)
(***************************************************************************)
\* C3: in one REACT pass of a task with max_steps = n, execute_tool is called
\* at most n times and get_next_action at most n times.
C3_ReactCallsBoundedByMaxSteps ==
    tasks_started > 0
        => /\ react.execute_tool_calls <= agent_task.max_steps
           /\ react.next_action_calls <= agent_task.max_steps

\* a REACT pass has returned its AgentResult to execute()
ReactPassReturned ==
    /\ agent_pc = "store"
    /\ agent_task.spec.agent_type \in {"react", "human_in_loop"}

\* C14: the result of a REACT pass has success = true; it has one thought
\* more than action records when the loop ended on a done action and as many
\* thoughts as action records when the loop ran out of steps; done on the
\* first action gives 1 thought and 0 actions.
C14_ThoughtsAndActionsOfReactPass ==
    ReactPassReturned
        => /\ agent_result.success = "True"
           /\ react.done => agent_result.thoughts = agent_result.actions + 1
           /\ ~ react.done => agent_result.thoughts = agent_result.actions
           /\ (react.done /\ react.next_action_calls = 1)
                 => (agent_result.thoughts = 1 /\ agent_result.actions = 0)

\* a pass that used up its steps: as many thoughts as action records
C14_Witness ==
    /\ ReactPassReturned
    /\ ~ react.done
    /\ agent_result.actions = agent_task.max_steps
    /\ agent_result.thoughts >= 2

\* C4: execute never lets an exception escape: when it has ended it has
\* returned an AgentResult, and after a failure of any step that result has
\* success = false and the error field populated.
C4_ExecuteAlwaysReturnsResult ==
    agent_pc = "done"
        => /\ exec_outcome = "returned"
           /\ failed_at # None => (agent_result.success = "False" /\ agent_result.error # None)

(***************************************************************************)
(* Properties of the ToolRegistry (checked under SpecTools)                *)
(***************************************************************************)
\* a call that has passed the gates of execute_tool
CallMade == tool_pc \in {"waiting", "returned"}

\* the rejections of execute_tool, common to both readings of the allow-list
RejectionsLeaveRegistryAlone ==
    /\ call_name \notin DOMAIN reg_at_call
          => call_result = "not_found" /\ ~ call_ran /\ tools = reg_at_call
    /\ call_result = "not_allowed" => ~ call_ran /\ tools = reg_at_call

\* C5 as stated: execute_tool runs a tool only if its name is registered and
\* on the allow-list; an unregistered name yields ToolNotFound and a
\* registered name not on the allow-list ToolNotAllowed, without running a
\* tool and without changing the registry.
C5_OnlyAllowListedToolsRun ==
    CallMade
        => /\ call_ran => (call_name \in DOMAIN reg_at_call /\ call_name \in allowed_tools)
           /\ (call_name \in DOMAIN reg_at_call /\ call_name \notin allowed_tools)
                 => call_result = "not_allowed"
           /\ RejectionsLeaveRegistryAlone

\* C5 amended: the allow-list is consulted only when it is non-empty; with an
\* empty allow-list every registered tool may run.
C5_OnlyAllowedToolsRun ==
    CallMade
        => /\ call_ran => /\ call_name \in DOMAIN reg_at_call
                          /\ (allowed_tools # {} => call_name \in allowed_tools)
           /\ (call_name \in DOMAIN reg_at_call /\ allowed_tools # {}
                  /\ call_name \notin allowed_tools)
                 => call_result = "not_allowed"
           /\ RejectionsLeaveRegistryAlone

\* a registered tool that is off a non-empty allow-list has been refused
C5_Witness ==
    /\ tool_pc = "returned"
    /\ call_result = "not_allowed"
    /\ call_name \in DOMAIN reg_at_call
    /\ allowed_tools # {}
    /\ ~ call_ran

\* C6 as stated: with sandbox_mode enabled every registered name is on the
\* allow-list, for every allow-list including the empty one.
C6_SandboxRegistryWithinAllowList ==
    sandbox_mode => DOMAIN tools \subseteq allowed_tools

\* C6 amended: with sandbox_mode enabled and a non-empty allow-list every
\* registered name is on the allow-list, and a refused name is not stored.
C6_SandboxRegistryWithinNonEmptyAllowList ==
    (sandbox_mode /\ allowed_tools # {})
        => /\ DOMAIN tools \subseteq allowed_tools
           /\ reg_refused \cap DOMAIN tools = {}

\* a registration was refused and another one was stored
C6_Witness ==
    /\ sandbox_mode
    /\ allowed_tools # {}
    /\ reg_refused # {}
    /\ DOMAIN tools # {}

\* C7: when a registered, allowed tool does not complete within the timeout,
\* the value execute_tool returns reports the timeout.
C7_TimeoutIsReported ==
    (tool_pc = "returned" /\ call_ran /\ call_behaviour = "exceeds_timeout")
        => call_result = "timeout"

(***************************************************************************)
(* Properties of the ModelRouter (checked under SpecRouter)                *)
(***************************************************************************)
\* the entry the last select_model call returned
ReturnedEntry == models_config[sel_result.index]

\* the score of catalog entry i in the state the last call read
ScoreAtCall(i) ==
    ModelScore(models_config[i], _extract_task_features(sel_pre.task),
               sel_pre.metrics, sel_pre.history)

\* the task-specific success rate the last call used for a model (0 if none)
TaskBiasAtCall(name) ==
    LET task_specific_models ==
            _get_task_specific_models(_extract_task_features(sel_pre.task).task_type,
                                      sel_pre.history)
    IN  IF name \in DOMAIN task_specific_models THEN task_specific_models[name] ELSE 0

\* the last call read a catalog of two entries identical but for their name,
\* with a stored success_rate of 0.9 for X, 0.2 for Y and their other stored
\* metrics equal
XAndYDifferBySuccessRate ==
    /\ sel_result.status # "none"
    /\ Len(models_config) = 2
    /\ { models_config[i].name : i \in 1..2 } = {"X", "Y"}
    /\ [models_config[1] EXCEPT !.name = "X"] = [models_config[2] EXCEPT !.name = "X"]
    /\ {"X", "Y"} \subseteq DOMAIN sel_pre.metrics
    /\ sel_pre.metrics["X"].success_rate = 900000
    /\ sel_pre.metrics["Y"].success_rate = 200000
    /\ [sel_pre.metrics["X"] EXCEPT !.success_rate = 0]
          = [sel_pre.metrics["Y"] EXCEPT !.success_rate = 0]

\* C8 as stated: whenever X and Y are identical except for a stored
\* success_rate of 0.9 for X and 0.2 for Y, select_model returns X.
C8_HigherSuccessRateWins ==
    XAndYDifferBySuccessRate
        => sel_result.status = "returned" /\ ReturnedEntry.name = "X"

\* C8 amended: ... and the task history gives X and Y the same success rate
\* for the task's type, then select_model returns X.
C8_HigherSuccessRateWinsOnEqualHistory ==
    (XAndYDifferBySuccessRate /\ TaskBiasAtCall("X") = TaskBiasAtCall("Y"))
        => sel_result.status = "returned" /\ ReturnedEntry.name = "X"

\* X was returned although Y comes first in the catalog
C8_Witness ==
    /\ XAndYDifferBySuccessRate
    /\ TaskBiasAtCall("X") = TaskBiasAtCall("Y")
    /\ sel_result.status = "returned"
    /\ models_config[1].name = "Y"
    /\ ReturnedEntry.name = "X"

\* the last call scored X with stored metrics equal to the neutral defaults
\* and the otherwise identical Y with no stored metrics
XNeutralYBlank ==
    /\ sel_result.status # "none"
    /\ Len(models_config) = 2
    /\ { models_config[i].name : i \in 1..2 } = {"X", "Y"}
    /\ [models_config[1] EXCEPT !.name = "X"] = [models_config[2] EXCEPT !.name = "X"]
    /\ "X" \in DOMAIN sel_pre.metrics
    /\ sel_pre.metrics["X"] = NeutralMetrics
    /\ "Y" \notin DOMAIN sel_pre.metrics
    /\ TaskBiasAtCall("X") = TaskBiasAtCall("Y")

\* C12: an entry with no stored metrics is scored like an otherwise identical
\* entry whose stored metrics equal the neutral defaults.
C12_BlankScoresAsNeutral ==
    XNeutralYBlank => ScoreAtCall(1) = ScoreAtCall(2)

\* C9: select_model returns the catalog entry with the maximal total score,
\* and among several entries with the maximal score the first in the catalog.
C9_ArgmaxFirstInCatalog ==
    sel_result.status = "returned"
        => \A j \in 1..Len(models_config) :
              /\ ScoreAtCall(j) <= ScoreAtCall(sel_result.index)
              /\ ScoreAtCall(j) = ScoreAtCall(sel_result.index) => sel_result.index <= j

\* a call for which two entries shared the maximal score
C9_Witness ==
    /\ sel_result.status = "returned"
    /\ \E j \in 1..Len(models_config) :
          /\ j > sel_result.index
          /\ ScoreAtCall(j) = ScoreAtCall(sel_result.index)

\* C10: for every catalog and task, select_model returns a config of one of
\* the catalog entries with a reason carrying its score, and never raises.
C10_SelectModelAlwaysReturns ==
    sel_result.status # "none"
        => /\ sel_result.status = "returned"
           /\ sel_result.index \in 1..Len(models_config)
           /\ sel_result.model_path = ReturnedEntry.model_path
           /\ sel_result.reason_score = ScoreAtCall(sel_result.index)


\* the plan stage of the task is over and the primary model's generate_plan
\* had raised
PrimaryPlanFailed ==
    plan_error = "generate_plan" /\ agent_pc # "plan_generation"

\* C15: when the primary model's generate_plan raises, the declared fallbacks
\* are tried in order; either the first one that produces a plan becomes the
\* model of the remaining calls and of the metrics feedback and no later one
\* is tried, or every declared fallback was tried and the task fails with the
\* primary model's plan-generation error.
C15_FallbackThenOriginalError ==
    PrimaryPlanFailed
        => \/ /\ fallbacks_tried \in 1..Len(FallbackCandidates)
              /\ selected_llm = FallbackCandidates[fallbacks_tried].model_path
              /\ current_model_path = selected_llm
              /\ failed_at \notin {"generate_plan", "log_plan", "_init_fallback_models"}
           \/ /\ fallbacks_tried = Len(FallbackCandidates)
              /\ failed_at = "generate_plan"
              /\ (agent_pc = "done" /\ exec_outcome = "returned")
                    => agent_result.error = "generate_plan"


\* execute() is over and select_model had returned a model for the task
SelectionCompleted ==
    agent_pc = "done" /\ failed_at \notin {"context_retrieval", "select_model"}

\* C16: an execute() call whose model selection completed has made, when it
\* ends, exactly one update_model_metrics call, keyed by the model that was
\* active for the task (the selected one, or the fallback that replaced it).
C16_ExactlyOneMetricsUpdate ==
    SelectionCompleted
        => /\ current_model_path # None
           /\ metric_updates = <<current_model_path>>
           /\ selected_llm # None => selected_llm = current_model_path


\* C27: an execute() call that failed before select_model returned a model
\* for the task (memory retrieval or select_model raised) has made no
\* update_model_metrics call when it ends
C27_NoUpdateBeforeSelection ==
    (agent_pc = "done" /\ failed_at \in {"context_retrieval", "select_model"})
        => metric_updates = <<>>

\* C28: each execute() call that selected a model passes that model's path
\* to update_model_metrics and writes it into the model_path of the result
\* it returns, whatever the other calls on the same AgentCore did meanwhile
C28_EachCallNamesItsOwnModel ==
    \A i \in Coroutines :
        (co_pc[i] = "returned" /\ co_llm[i] # None)
            => /\ co_recorded[i] = co_llm[i]
               /\ co_result_path[i] \in {None, co_llm[i]}

\* C29: the key under which execute() records the outcome of the model that
\* select_model chose is the key _calculate_model_score reads for that
\* catalog entry (its name), so the entry has metrics at the next selection
C29_RecordedUnderScoredKey ==
    (SelectionCompleted /\ metric_updates # <<>>
        /\ current_model_path = sel_result.model_path)
        => /\ metric_updates[1] = ReturnedEntry.name
           /\ ReturnedEntry.name \in DOMAIN model_metrics

\* C30: the success rate kept per task type and model is the number of
\* recorded successful outcomes divided by the number of recorded outcomes.
\* Choosing a model is not an outcome, so a select_model call that returns
\* leaves every such rate as it was: a model whose outcomes were all
\* successes keeps the rate 1.
C30_RateCountsOutcomesOnly ==
    [][ model_usage' # model_usage
           => \A task_type \in DOMAIN task_history :
                 _get_task_specific_models(task_type, task_history')
                    = _get_task_specific_models(task_type, task_history) ]_vars

\* the statements of execute() other than tracer calls whose exception ends
\* the task
NonTracerFailures ==
    {"context_retrieval", "select_model", "get_llm_backend", "generate_plan",
     "execution", "result_storage", "metrics_recording"}

\* C17: a raising tracer call changes nothing for the caller: execute() ends
\* by returning, and it returns a failed result only when a statement that
\* is not a tracer call raised.
C17_TracerFailureNeverFailsTask ==
    agent_pc = "done"
        => /\ exec_outcome = "returned"
           /\ \/ failed_at = None
              \/ failed_at \in NonTracerFailures
              \/ failed_at = "_init_fallback_models" /\ plan_error = "generate_plan"


(***************************************************************************)
(* Properties of the code sandbox (checked under SpecSandbox)              *)
(***************************************************************************)
\* C18: when run_code has returned, by whatever path, the temporary source
\* file that the call created is gone and the caller holds a result map with
\* a success flag.
C18_TempFileRemovedOnEveryPath ==
    sb_pc = "returned"
        => /\ run_result.status = "returned"
           /\ run_result.success \in {"True", "False"}
           /\ file_created # Unbound => file_created \notin temp_files

(***************************************************************************)
(* Properties of the shared metrics files (checked under SpecStore)        *)
(***************************************************************************)
RECURSIVE ApplyAll(_, _)
ApplyAll(store, observations) ==
    IF observations = <<>> THEN store
    ELSE ApplyAll(Applied(store, Head(observations)), Tail(observations))

Orders(n) == { f \in [1..n -> 1..n] : \A a, b \in 1..n : f[a] = f[b] => a = b }

\* C19: after any number of update_model_metrics calls for one model, the
\* files and the dicts of the router that wrote last hold what applying all
\* the observations one after another, in some order, gives.
C19_NoObservationLost ==
    applied # <<>>
        => \E f \in Orders(Len(applied)) :
              LET serial == ApplyAll(BlankStore, [n \in 1..Len(applied) |-> applied[f[n]]])
              IN  disk = serial /\ routers[last_writer] = serial

====
